---------------------------- MODULE Spec2Model ----------------------------
(***************************************************************************)
(* A model of the PACK2 core: the volume engine (VolumeCalculator), the    *)
(* series generator (BottleGenerationService), the fill-range calculator   *)
(* (FillRangeService), the coverage analyser (ComparisonService) and the   *)
(* store actions that call them.                                           *)
(*                                                                         *)
(* Numbers.  The program computes in IEEE doubles; the model computes in   *)
(* fixed point on integers below 2^31:                                     *)
(*   lengths      in 1/LenUnit mm   (0.001 mm)                             *)
(*   volumes      in 1/VolUnit mL   (1 mm^3 = 0.001 mL)                    *)
(*   areas        in mm^2           (0.01 cm^2)                            *)
(*   fill volumes in 1/FillUnit mL  (so volume * percent / 100 is exact)   *)
(*   ratios       in 1/RatioUnit                                           *)
(*   pi           as PiNum / PiDen                                         *)
(* Every product is divided as it is formed (MulDiv), truncating toward    *)
(* zero at the unit of the result.                                         *)
(***************************************************************************)
EXTENDS Integers, Sequences, FiniteSets, TLC

VARIABLES
    bottles,                  \* store: the bottle library, id -> Bottle
    bottleSeries,             \* store: id -> BottleSeries
    seriesComparisons,        \* store: id -> SeriesComparison
    activeSeriesId,           \* store: id or Null
    activeSeriesComparisonId, \* store: id or Null
    nextUuid,                 \* how many identifiers uuidv4() has handed out
    config,                   \* input of a generateSeries call
    ranges1,                  \* input of a coverage call: FillRange list
    ranges2,                  \* input of a coverage call: FillRange list
    series1,                  \* input of a compareSeries call
    series2,                  \* input of a compareSeries call
    args,                     \* input of any other call: its arguments
    frame,                    \* the call in progress: its position and locals
    ret                       \* the last call: [op, out]

vars == <<bottles, bottleSeries, seriesComparisons, activeSeriesId,
          activeSeriesComparisonId, nextUuid, config, ranges1, ranges2,
          series1, series2, args, frame, ret>>

Null == "null"

---------------------------------------------------------------------------
(* Units of the fixed-point representation.                                *)

LenUnit == 1000
VolUnit == 1000
PctUnit == 2
FillUnit == VolUnit * PctUnit * 100
RatioUnit == 1000000
PiNum == 355
PiDen == 113

---------------------------------------------------------------------------
(* Integer helpers.                                                        *)

Abs(x) == IF x < 0 THEN -x ELSE x
Sign(x) == IF x < 0 THEN -1 ELSE 1
Max(a, b) == IF a >= b THEN a ELSE b
Min(a, b) == IF a <= b THEN a ELSE b

\* <<q, r>> with a * b = q * c + r and 0 <= r < c, for 0 <= a < c and b >= 0,
\* formed digit by digit of b in the given base; no intermediate exceeds
\* 2 * base * c.
RECURSIVE MulDivQR(_, _, _, _)
MulDivQR(a, b, c, base) ==
    IF b = 0 THEN <<0, 0>>
    ELSE LET h == MulDivQR(a, b \div base, c, base)
             t == base * h[2] + (b % base) * a
         IN  <<base * h[1] + t \div c, t % c>>

\* |a| * |b| / c for 0 <= a < c, taking the digits of b in the largest base
\* that keeps every intermediate below 2^31.
MulDivLow(a, b, c) == MulDivQR(a, b, c, Max(2, 1073741823 \div c))[1]

\* a * b / c truncated toward zero, for any signs of a and b and
\* 0 < c < 2^29.
MulDiv(a, b, c) ==
    IF a = 0 \/ b = 0 THEN 0
    ELSE Sign(a) * Sign(b) *
         ((Abs(a) \div c) * Abs(b) + MulDivLow(Abs(a) % c, Abs(b), c))

\* The largest s in lo..hi with s * s <= n (n >= 0, lo * lo <= n).
RECURSIVE SqrtIn(_, _, _)
SqrtIn(n, lo, hi) ==
    IF lo >= hi THEN lo
    ELSE LET mid == lo + (hi - lo + 1) \div 2
         IN  IF mid * mid <= n THEN SqrtIn(n, mid, hi) ELSE SqrtIn(n, lo, mid - 1)

ISqrt(n) == IF n <= 0 THEN 0 ELSE SqrtIn(n, 0, Min(n, 46340))

\* Math.round: the nearest integer, halves toward +infinity.  x is in units
\* of 1/unit; the result is in whole units.
RoundTo(x, unit) == (2 * x + unit) \div (2 * unit)

\* Math.round(x * 10) / 10 on a length.
RoundOneDecimal(x) == RoundTo(x, LenUnit \div 10) * (LenUnit \div 10)

Mm(n) == n * LenUnit
Ml(n) == n * VolUnit

---------------------------------------------------------------------------
(* VolumeCalculator (src/src/services/volumeCalculator.ts).  The solids    *)
(* return mm^3 in units of 1/Mm3Unit mm^3; lengths come in 1/LenUnit mm.   *)

Mm3Unit == 100

\* Math.cos(angle * Math.PI / 180), in 1/RatioUnit, for the shoulder angles
\* the model's bottles carry.
Cos(angle) ==
    CASE angle = 0  -> 1000000
      [] angle = 30 -> 866025
      [] angle = 40 -> 766044
      [] angle = 45 -> 707107
      [] angle = 60 -> 500000
      [] angle = 70 -> 342020
      [] angle = 80 -> 173648
      [] angle = 90 -> 0

\* V = pi * r^2 * h
cylinder(radius, height) ==
    MulDiv(MulDiv(MulDiv(radius, radius, 10), height, 100000), PiNum, PiDen * 10)

\* V = (pi * h / 3) * (r1^2 + r1*r2 + r2^2)
frustum(r1, r2, height) ==
    MulDiv(MulDiv(MulDiv(r1, r1, 10) + MulDiv(r1, r2, 10) + MulDiv(r2, r2, 10),
                  height, 100000),
           PiNum, 3 * PiDen * 10)

\* V = (pi * h^2 / 3) * (3r - h), 0 for a non-positive radius or height
sphericalCap(radius, height) ==
    IF height <= 0 \/ radius <= 0 THEN 0
    ELSE MulDiv(MulDiv(MulDiv(height, height, 10), 3 * radius - height, 100000),
                PiNum, 3 * PiDen * 10)

\* V = pi * a * b * h
ellipticalCylinder(a, b, height) ==
    MulDiv(MulDiv(MulDiv(a, b, 10), height, 100000), PiNum, PiDen * 10)

\* The conversion to mL as it would be without Math.max(0, ...).
ToMlUnclamped(totalMm3) == MulDiv(totalMm3, VolUnit, Mm3Unit * 1000)

\* Math.max(0, totalMm3 / 1000), in 1/VolUnit mL.
ToMl(totalMm3) == Max(0, MulDiv(totalMm3, VolUnit, Mm3Unit * 1000))

bostonRound(dims) ==
    LET bodyRadius == dims.diameter \div 2 - dims.wallThickness
        neckRadius == dims.neckDiameter \div 2 - dims.wallThickness
        shoulderHeight == MulDiv(dims.shoulderCurveRadius,
                                 RatioUnit - Cos(dims.shoulderAngle), RatioUnit)
        bodyHeight == dims.bodyHeight - dims.neckHeight - shoulderHeight
                      - dims.baseIndentDepth
        bodyVolume == cylinder(bodyRadius, Max(0, bodyHeight))
        shoulderVolume == frustum(bodyRadius, neckRadius, shoulderHeight)
        neckVolume == cylinder(neckRadius, dims.neckHeight)
        baseIndentVolume ==
            IF dims.baseProfile = "concave" /\ dims.baseIndentDepth > 0
            THEN sphericalCap(dims.baseDiameter \div 2, dims.baseIndentDepth)
            ELSE 0
    IN  ToMl(bodyVolume + shoulderVolume + neckVolume - baseIndentVolume)

cylinderBottle(dims) ==
    LET bodyRadius == dims.diameter \div 2 - dims.wallThickness
        neckRadius == dims.neckDiameter \div 2 - dims.wallThickness
        bodyHeight == dims.bodyHeight - dims.neckHeight
        bodyVolume == cylinder(bodyRadius, bodyHeight)
        neckVolume == cylinder(neckRadius, dims.neckHeight)
        transitionHeight == Min(Mm(5), dims.shoulderCurveRadius)
        transitionVolume == frustum(bodyRadius, neckRadius, transitionHeight)
    IN  ToMl(bodyVolume + neckVolume + transitionVolume)

\* widthRatio is held in hundredths; 0 stands for an absent (undefined) ratio,
\* which `dims.widthRatio || dflt` treats like 0.
WidthRatioOr(dims, dflt) == IF dims.widthRatio = 0 THEN dflt ELSE dims.widthRatio

oval(dims) ==
    LET widthRatio == WidthRatioOr(dims, 60)
        a == dims.diameter \div 2 - dims.wallThickness
        b == MulDiv(a, widthRatio, 100)
        bodyHeight == dims.bodyHeight - dims.neckHeight - dims.shoulderCurveRadius
        bodyVolume == ellipticalCylinder(a, b, Max(0, bodyHeight))
        neckRadius == dims.neckDiameter \div 2 - dims.wallThickness
        neckVolume == cylinder(neckRadius, dims.neckHeight)
        equivalentRadius == 2 * ISqrt(MulDiv(a, b, 4))
        transitionVolume == frustum(equivalentRadius, neckRadius,
                                    dims.shoulderCurveRadius)
    IN  ToMl(bodyVolume + neckVolume + transitionVolume)

modernPharmaceutical(dims) ==
    LET cornerRadius == Min(dims.shoulderCurveRadius, Mm(10))
        width == dims.diameter - 2 * dims.wallThickness
        depth == MulDiv(width, WidthRatioOr(dims, 50), 100)
        height == dims.bodyHeight - dims.neckHeight
        rectVolume == MulDiv(MulDiv(width, depth, 10), height, 1000000)
        cornerCorrection ==
            MulDiv(MulDiv(MulDiv(cornerRadius, cornerRadius, 10), height, 100000),
                   4 * PiDen - PiNum, PiDen * 10)
        bodyVolume == rectVolume - cornerCorrection
        neckRadius == dims.neckDiameter \div 2 - dims.wallThickness
        neckVolume == cylinder(neckRadius, dims.neckHeight)
        equivalentRadius ==
            4 * ISqrt(MulDiv(MulDiv(width, depth, 16), PiDen, PiNum))
        transitionVolume == frustum(equivalentRadius, neckRadius, Mm(5))
    IN  ToMl(bodyVolume + neckVolume + transitionVolume)

packer(dims) ==
    LET bodyRadius == dims.diameter \div 2 - dims.wallThickness
        neckRadius == dims.neckDiameter \div 2 - dims.wallThickness
        bodyHeight == dims.bodyHeight - dims.neckHeight - dims.shoulderCurveRadius
        bodyVolume == cylinder(bodyRadius, Max(0, bodyHeight))
        shoulderVolume == frustum(bodyRadius, neckRadius, dims.shoulderCurveRadius)
        neckVolume == cylinder(neckRadius, dims.neckHeight)
    IN  ToMl(bodyVolume + shoulderVolume + neckVolume)

widemouth(dims) == packer(dims)

calculateFromDimensions(shape, dims) ==
    CASE shape = "boston-round"          -> bostonRound(dims)
      [] shape = "cylinder"              -> cylinderBottle(dims)
      [] shape = "oval"                  -> oval(dims)
      [] shape = "modern-pharmaceutical" -> modernPharmaceutical(dims)
      [] shape = "packer"                -> packer(dims)
      [] shape = "wide-mouth"            -> widemouth(dims)
      [] OTHER                           -> bostonRound(dims)

calculate(bottle) == calculateFromDimensions(bottle.shape, bottle.dimensions)

\* (2*pi*r*h + 2*pi*r^2) / 100 cm^2, held in mm^2.
calculateSurfaceArea(bottle) ==
    LET dims == bottle.dimensions
        bodyRadius == dims.diameter \div 2
        bodyHeight == dims.bodyHeight - dims.neckHeight
        lateralArea == MulDiv(MulDiv(bodyRadius, bodyHeight, 1000), 2 * PiNum, PiDen)
        endAreas == MulDiv(MulDiv(bodyRadius, bodyRadius, 1000), 2 * PiNum, PiDen)
    IN  (lateralArea + endAreas) \div 1000

\* The largest s in lo..hi whose cube is at most x, all in 1/RatioUnit.
RECURSIVE CbrtIn(_, _, _)
CbrtIn(x, lo, hi) ==
    IF lo >= hi THEN lo
    ELSE LET mid == lo + (hi - lo + 1) \div 2
             cube == MulDiv(MulDiv(mid, mid, RatioUnit), mid, RatioUnit)
         IN  IF cube <= x THEN CbrtIn(x, mid, hi) ELSE CbrtIn(x, lo, mid - 1)

\* Math.pow(x, 1/3) for 0 <= x < 2146, x and the result in 1/RatioUnit.
Cbrt(x) == CbrtIn(x, 0, 12900000)

\* `value || dflt` on a number: 0 and an absent value give the default.
OrDefault(value, dflt) == IF value = 0 THEN dflt ELSE value

\* The starting dimensions of estimateDimensionsForVolume.  widthRatio is
\* taken as it is.
EstimateStart(baseDims) ==
    [height |-> OrDefault(baseDims.height, Mm(100)),
     bodyHeight |-> OrDefault(baseDims.bodyHeight, Mm(85)),
     diameter |-> OrDefault(baseDims.diameter, Mm(45)),
     neckHeight |-> OrDefault(baseDims.neckHeight, Mm(15)),
     neckDiameter |-> OrDefault(baseDims.neckDiameter, Mm(22)),
     neckFinish |-> IF baseDims.neckFinish = "" THEN "28-400" ELSE baseDims.neckFinish,
     shoulderCurveRadius |-> OrDefault(baseDims.shoulderCurveRadius, Mm(15)),
     shoulderAngle |-> OrDefault(baseDims.shoulderAngle, 45),
     baseProfile |-> IF baseDims.baseProfile = "" THEN "flat" ELSE baseDims.baseProfile,
     baseDiameter |-> OrDefault(baseDims.baseDiameter, Mm(45)),
     baseIndentDepth |-> OrDefault(baseDims.baseIndentDepth, 0),
     wallThickness |-> OrDefault(baseDims.wallThickness, 1500),
     widthRatio |-> baseDims.widthRatio]

\* Whether the loop of estimateDimensionsForVolume leaves at its break:
\* Math.abs(currentVolume - targetVolume) < 0.5
EstimateClose(targetVolume, currentVolume) ==
    2 * Abs(currentVolume - Ml(targetVolume)) < VolUnit

\* One pass of the loop body of estimateDimensionsForVolume, for a current
\* volume above 0: diameter and body height times the cube root of
\* targetVolume / currentVolume.
EstimateStep(dims, targetVolume, currentVolume) ==
    LET scaleFactor == Cbrt(MulDiv(Ml(targetVolume), RatioUnit, currentVolume))
        diameter == MulDiv(dims.diameter, scaleFactor, RatioUnit)
        bodyHeight == MulDiv(dims.bodyHeight, scaleFactor, RatioUnit)
    IN  [dims EXCEPT !.diameter = diameter,
                     !.bodyHeight = bodyHeight,
                     !.height = bodyHeight + dims.neckHeight,
                     !.baseDiameter = diameter]

RECURSIVE EstimateLoop(_, _, _, _, _)
EstimateLoop(dims, shape, targetVolume, i, maxIterations) ==
    IF i >= maxIterations THEN dims
    ELSE IF EstimateClose(targetVolume, calculateFromDimensions(shape, dims)) THEN dims
    ELSE EstimateLoop(EstimateStep(dims, targetVolume, calculateFromDimensions(shape, dims)),
                      shape, targetVolume, i + 1, maxIterations)

\* The rounding at the end of estimateDimensionsForVolume.
EstimateRounded(dims) ==
    [dims EXCEPT !.height = RoundOneDecimal(dims.height),
                 !.bodyHeight = RoundOneDecimal(dims.bodyHeight),
                 !.diameter = RoundOneDecimal(dims.diameter),
                 !.baseDiameter = RoundOneDecimal(dims.diameter)]

\* estimateDimensionsForVolume with the rounding left out.
estimateDimensionsForVolumeUnrounded(targetVolume, shape, baseDims) ==
    EstimateLoop(EstimateStart(baseDims), shape, targetVolume, 0, 20)

estimateDimensionsForVolume(targetVolume, shape, baseDims) ==
    EstimateRounded(EstimateLoop(EstimateStart(baseDims), shape, targetVolume, 0, 20))


---------------------------------------------------------------------------
(* Bottle types (src/src/types/bottle.ts).                                 *)

BottleShapes == {"boston-round", "cylinder", "oval", "modern-pharmaceutical",
                 "packer", "wide-mouth"}

Dims(h, bh, d, nh, nd, nf, scr, sa, bd, wt, wr) ==
    [height |-> h, bodyHeight |-> bh, diameter |-> d, neckHeight |-> nh,
     neckDiameter |-> nd, neckFinish |-> nf, shoulderCurveRadius |-> scr,
     shoulderAngle |-> sa, baseProfile |-> "flat", baseDiameter |-> bd,
     baseIndentDepth |-> 0, wallThickness |-> wt, widthRatio |-> wr]

DEFAULT_DIMENSIONS(shape) ==
    CASE shape = "boston-round" ->
           Dims(Mm(90), Mm(85), Mm(45), Mm(5), Mm(37), "28-400", Mm(4), 45,
                Mm(45), 1500, 0)
      [] shape = "cylinder" ->
           Dims(Mm(120), Mm(105), Mm(50), Mm(15), Mm(24), "28-400", Mm(5), 90,
                Mm(50), 1500, 0)
      [] shape = "oval" ->
           Dims(Mm(110), Mm(95), Mm(55), Mm(15), Mm(24), "28-400", Mm(12), 40,
                Mm(55), 1500, 60)
      [] shape = "modern-pharmaceutical" ->
           Dims(Mm(130), Mm(115), Mm(60), Mm(15), Mm(28), "33-400", Mm(8), 60,
                Mm(60), 2000, 50)
      [] shape = "packer" ->
           Dims(Mm(95), Mm(80), Mm(55), Mm(15), Mm(38), "38-400", Mm(10), 70,
                Mm(55), 2000, 0)
      [] shape = "wide-mouth" ->
           Dims(Mm(85), Mm(70), Mm(60), Mm(15), Mm(53), "53-400", Mm(8), 80,
                Mm(60), 2000, 0)

---------------------------------------------------------------------------
(* BottleGenerationService (src/unnamed/part_002).                         *)

\* The golden ratio, in 1/RatioUnit.
PHI == 1618034

\* Height-to-diameter and height-scaling limits, in tenths.
MIN_HEIGHT_DIAMETER_RATIO == 12
MAX_HEIGHT_DIAMETER_RATIO == 30
MIN_HEIGHT_RATIO == 3
MAX_HEIGHT_RATIO == 30

STANDARD_BOTTLE_DIAMETERS ==
    << [maxVolume |-> 30,   diameter |-> 48],
       [maxVolume |-> 60,   diameter |-> 48],
       [maxVolume |-> 120,  diameter |-> 58],
       [maxVolume |-> 200,  diameter |-> 58],
       [maxVolume |-> 300,  diameter |-> 58],
       [maxVolume |-> 500,  diameter |-> 78],
       [maxVolume |-> 750,  diameter |-> 78],
       [maxVolume |-> 1000, diameter |-> 78],
       [maxVolume |-> 2000, diameter |-> 98] >>

STANDARD_CAP_DIAMETERS ==
    << [bottleDiameter |-> 28, neckDiameter |-> 20, neckFinish |-> "20-400"],
       [bottleDiameter |-> 33, neckDiameter |-> 25, neckFinish |-> "24-400"],
       [bottleDiameter |-> 38, neckDiameter |-> 30, neckFinish |-> "28-400"],
       [bottleDiameter |-> 43, neckDiameter |-> 35, neckFinish |-> "28-400"],
       [bottleDiameter |-> 48, neckDiameter |-> 40, neckFinish |-> "33-400"],
       [bottleDiameter |-> 53, neckDiameter |-> 45, neckFinish |-> "33-400"],
       [bottleDiameter |-> 58, neckDiameter |-> 50, neckFinish |-> "38-400"],
       [bottleDiameter |-> 63, neckDiameter |-> 55, neckFinish |-> "38-400"],
       [bottleDiameter |-> 75, neckDiameter |-> 67, neckFinish |-> "45-400"] >>

\* The largest value a ratio power is followed to: beyond it the power only
\* counts as "larger than any volume ratio".
RatioCap == 1000 * RatioUnit

\* x * r in 1/RatioUnit, saturating at RatioCap + 1.
SatMul(x, r) ==
    IF x > RatioCap \/ x > MulDiv(RatioCap, RatioUnit, r) THEN RatioCap + 1
    ELSE MulDiv(x, r, RatioUnit)

\* r^k in 1/RatioUnit, saturating.
RECURSIVE RatioPow(_, _)
RatioPow(r, k) == IF k = 0 THEN RatioUnit ELSE SatMul(RatioPow(r, k - 1), r)

\* The largest r in lo..hi (1/RatioUnit) with r^k <= q.
RECURSIVE RootIn(_, _, _, _)
RootIn(q, k, lo, hi) ==
    IF lo >= hi THEN lo
    ELSE LET mid == lo + (hi - lo + 1) \div 2
         IN  IF RatioPow(mid, k) <= q THEN RootIn(q, k, mid, hi)
                                      ELSE RootIn(q, k, lo, mid - 1)

\* Math.pow(maxVolume / minVolume, 1 / k) for maxVolume >= minVolume > 0 and
\* maxVolume / minVolume <= 1000.
RatioRoot(minVolume, maxVolume, k) ==
    LET q == MulDiv(maxVolume, RatioUnit, minVolume)
    IN  RootIn(q, k, RatioUnit, q)

\* V(i) = round(min + (max - min) * i / (n - 1)), in exact arithmetic.
linearProgression(minVolume, maxVolume, count) ==
    IF count <= 1 THEN <<minVolume>>
    ELSE [i \in 1..count |->
            RoundTo(minVolume * (count - 1) + (maxVolume - minVolume) * (i - 1),
                    count - 1)]

\* A running volume is held as base * factor: base in whole mL, factor in
\* 1/RatioUnit, so that repeated scaling keeps six digits whatever the size.
\* Math.round of it:
RoundScaled(base, factor) == RoundTo(MulDiv(Ml(base), factor, RatioUnit), VolUnit)

\* The loop of goldenRatioProgression with the cap applied before index
\* count - 2 is pushed instead of after it.
RECURSIVE GoldenLoopCapBefore(_, _, _, _, _, _, _)
GoldenLoopCapBefore(i, count, ratio, maxVolume, base, factor, volumes) ==
    IF i >= count THEN volumes
    ELSE IF i = count - 2
         THEN GoldenLoopCapBefore(i + 1, count, ratio, maxVolume, maxVolume,
                                  ratio, Append(volumes, maxVolume))
         ELSE GoldenLoopCapBefore(i + 1, count, ratio, maxVolume, base,
                                  SatMul(factor, ratio),
                                  Append(volumes, RoundScaled(base, factor)))

\* The loop of goldenRatioProgression without the cap on the last bottle.
RECURSIVE GoldenLoopUncapped(_, _, _, _, _, _, _)
GoldenLoopUncapped(i, count, ratio, maxVolume, base, factor, volumes) ==
    IF i >= count THEN volumes
    ELSE GoldenLoopUncapped(i + 1, count, ratio, maxVolume, base,
                            SatMul(factor, ratio),
                            Append(volumes, RoundScaled(base, factor)))

\* The loop of goldenRatioProgression from index i on; currentVolume is
\* base * factor.
RECURSIVE GoldenLoop(_, _, _, _, _, _, _)
GoldenLoop(i, count, ratio, maxVolume, base, factor, volumes) ==
    IF i >= count THEN volumes
    ELSE LET pushed == Append(volumes, RoundScaled(base, factor))
         IN  IF i = count - 2
             THEN GoldenLoop(i + 1, count, ratio, maxVolume, maxVolume,
                             RatioUnit, pushed)
             ELSE GoldenLoop(i + 1, count, ratio, maxVolume, base,
                             SatMul(factor, ratio), pushed)

\* The ratio goldenRatioProgression multiplies by: PHI, or the ratio needed
\* to reach maxVolume in count - 1 steps when that is larger.
GoldenRatio(minVolume, maxVolume, count) ==
    LET neededRatio == RatioRoot(minVolume, maxVolume, count - 1)
    IN  IF neededRatio <= PHI THEN PHI ELSE neededRatio

\* goldenRatioProgression that gives both ends when asked for one bottle or
\* none.
goldenRatioProgressionBothEnds(minVolume, maxVolume, count) ==
    IF count <= 1 THEN <<minVolume, maxVolume>>
    ELSE LET neededRatio == RatioRoot(minVolume, maxVolume, count - 1)
         IN  IF neededRatio <= PHI
             THEN GoldenLoop(0, count, PHI, maxVolume, minVolume, RatioUnit, <<>>)
             ELSE GoldenLoop(0, count, neededRatio, maxVolume, minVolume,
                             RatioUnit, <<>>)

goldenRatioProgression(minVolume, maxVolume, count) ==
    IF count <= 1 THEN <<minVolume>>
    ELSE LET neededRatio == RatioRoot(minVolume, maxVolume, count - 1)
         IN  IF neededRatio <= PHI
             THEN GoldenLoop(0, count, PHI, maxVolume, minVolume, RatioUnit, <<>>)
             ELSE GoldenLoop(0, count, neededRatio, maxVolume, minVolume,
                             RatioUnit, <<>>)

\* exp(logMin + logStep * i) = min * (max/min)^(i/(n-1)), formed as min * g^i
\* with g the (n-1)th root of max/min.
logarithmicProgression(minVolume, maxVolume, count) ==
    IF count <= 1 THEN <<minVolume>>
    ELSE LET g == RatioRoot(minVolume, maxVolume, count - 1)
         IN  [i \in 1..count |-> RoundScaled(minVolume, RatioPow(g, i - 1))]

calculateVolumes(cfg) ==
    CASE cfg.algorithm = "linear" ->
           linearProgression(cfg.minVolume, cfg.maxVolume, cfg.bottleCount)
      [] cfg.algorithm = "golden-ratio" ->
           goldenRatioProgression(cfg.minVolume, cfg.maxVolume, cfg.bottleCount)
      [] cfg.algorithm = "logarithmic" ->
           logarithmicProgression(cfg.minVolume, cfg.maxVolume, cfg.bottleCount)
      [] OTHER ->
           linearProgression(cfg.minVolume, cfg.maxVolume, cfg.bottleCount)

\* A Bottle: the fields the services read or write.  name, colours, material,
\* label zones and the two dates take no part in any computation.
Bottle(id, shape, dimensions, volume, surfaceArea, isCustom) ==
    [id |-> id, shape |-> shape, dimensions |-> dimensions, volume |-> volume,
     surfaceArea |-> surfaceArea, isCustom |-> isCustom]

createTemplateFromShape(shape) ==
    LET dims == DEFAULT_DIMENSIONS(shape)
        baseDiameter == dims.diameter
        fullDims ==
            IF shape = "boston-round"
            THEN [dims EXCEPT !.shoulderCurveRadius = Mm(4),
                              !.neckHeight = Mm(5),
                              !.neckDiameter = baseDiameter - Mm(8),
                              !.height = dims.bodyHeight + Mm(5)]
            ELSE dims
        template == Bottle("template", shape, fullDims, 0, 0, FALSE)
    IN  [template EXCEPT !.volume = calculate(template),
                         !.surfaceArea = calculateSurfaceArea(template)]

getTemplate(baseTemplateId, existingBottles) ==
    IF baseTemplateId \in DOMAIN existingBottles
    THEN existingBottles[baseTemplateId]
    ELSE IF baseTemplateId \in BottleShapes
         THEN createTemplateFromShape(baseTemplateId)
         ELSE createTemplateFromShape("boston-round")

\* getStandardDiameter that takes a bracket only when the volume is below its
\* maxVolume.
getStandardDiameterStrict(targetVolume) ==
    LET fits == {i \in DOMAIN STANDARD_BOTTLE_DIAMETERS :
                    targetVolume < STANDARD_BOTTLE_DIAMETERS[i].maxVolume}
    IN  IF fits = {}
        THEN STANDARD_BOTTLE_DIAMETERS[Len(STANDARD_BOTTLE_DIAMETERS)].diameter
        ELSE STANDARD_BOTTLE_DIAMETERS[CHOOSE i \in fits :
                                          \A j \in fits : i <= j].diameter

\* The diameter (whole mm) of the first table entry the volume fits in.
getStandardDiameter(targetVolume) ==
    LET fits == {i \in DOMAIN STANDARD_BOTTLE_DIAMETERS :
                    targetVolume <= STANDARD_BOTTLE_DIAMETERS[i].maxVolume}
    IN  IF fits = {}
        THEN STANDARD_BOTTLE_DIAMETERS[Len(STANDARD_BOTTLE_DIAMETERS)].diameter
        ELSE STANDARD_BOTTLE_DIAMETERS[CHOOSE i \in fits :
                                          \A j \in fits : i <= j].diameter

\* The first table entry at the least distance from the diameter (whole mm).
getStandardCapDimensions(bottleDiameter) ==
    LET diff(i) == Abs(bottleDiameter - STANDARD_CAP_DIAMETERS[i].bottleDiameter)
        best == CHOOSE i \in DOMAIN STANDARD_CAP_DIAMETERS :
                    \A j \in DOMAIN STANDARD_CAP_DIAMETERS :
                        diff(i) < diff(j) \/ (diff(i) = diff(j) /\ i <= j)
    IN  [neckDiameter |-> STANDARD_CAP_DIAMETERS[best].neckDiameter,
         neckFinish |-> STANDARD_CAP_DIAMETERS[best].neckFinish]

\* Math.max(lo, Math.min(hi, x))
Clamp(lo, hi, x) == Max(lo, Min(hi, x))

enforceRatioLimits(bottle) ==
    LET dims == bottle.dimensions
    IN  IF dims.bodyHeight * 10 > dims.diameter * MAX_HEIGHT_DIAMETER_RATIO
        THEN LET bh == (dims.diameter * MAX_HEIGHT_DIAMETER_RATIO) \div 10
             IN  [bottle EXCEPT !.dimensions.bodyHeight = bh,
                                !.dimensions.height = bh + dims.neckHeight]
        ELSE IF dims.bodyHeight * 10 < dims.diameter * MIN_HEIGHT_DIAMETER_RATIO
        THEN LET bh == (dims.diameter * MIN_HEIGHT_DIAMETER_RATIO) \div 10
             IN  [bottle EXCEPT !.dimensions.bodyHeight = bh,
                                !.dimensions.height = bh + dims.neckHeight]
        ELSE bottle

\* One pass of the loop body of fineTuneVolume.  A zero volume makes the
\* adjustment ratio infinite, which the clamp turns into the upper limit.
FineTuneStep(adjusted, targetVolume, vol) ==
    LET dims == adjusted.dimensions
        minH == (dims.diameter * MIN_HEIGHT_DIAMETER_RATIO) \div 10
        maxH == (dims.diameter * MAX_HEIGHT_DIAMETER_RATIO) \div 10
        bh == IF vol = 0 THEN maxH
              ELSE Clamp(minH, maxH, MulDiv(dims.bodyHeight, Ml(targetVolume), vol))
    IN  [adjusted EXCEPT !.dimensions.bodyHeight = bh,
                         !.dimensions.height = bh + dims.neckHeight]

\* Whether the loop of fineTuneVolume leaves at its break:
\* Math.abs(vol - targetVolume) <= targetVolume * 0.01
FineTuneClose(targetVolume, vol) == Abs(vol - Ml(targetVolume)) * 100 <= Ml(targetVolume)

RECURSIVE FineTuneLoop(_, _, _, _, _)
FineTuneLoop(adjusted, targetVolume, vol, i, maxIterations) ==
    IF i >= maxIterations THEN adjusted
    ELSE IF FineTuneClose(targetVolume, vol) THEN adjusted
    ELSE LET next == FineTuneStep(adjusted, targetVolume, vol)
         IN  FineTuneLoop(next, targetVolume, calculate(next), i + 1,
                          maxIterations)

fineTuneVolume(bottle, targetVolume, currentVolume, maxIterations) ==
    FineTuneLoop(bottle, targetVolume, currentVolume, 0, maxIterations)

\* The volume and surface area are those of the bottle as passed in; the five
\* linear dimensions are rounded to one decimal afterwards.
finalizeBottle(bottle, targetVolume, id) ==
    LET d == bottle.dimensions
    IN  [bottle EXCEPT
            !.id = id,
            !.volume = calculate(bottle),
            !.surfaceArea = calculateSurfaceArea(bottle),
            !.isCustom = FALSE,
            !.dimensions = [d EXCEPT
                !.height = RoundOneDecimal(d.height),
                !.bodyHeight = RoundOneDecimal(d.bodyHeight),
                !.diameter = RoundOneDecimal(d.diameter),
                !.baseDiameter = RoundOneDecimal(d.baseDiameter),
                !.neckDiameter = RoundOneDecimal(d.neckDiameter)]]

\* scaleBottleToVolume past its guard, up to the fine-tuning: the template at
\* the standard diameter with the body height estimated from the target volume.
ScaledBottle(template, targetVolume) ==
    LET stdDiameter == getStandardDiameter(targetVolume)
        stdCap == getStandardCapDimensions(stdDiameter)
        tdims == template.dimensions
        \* pi * ((d - 2 * wall) / 2)^2, in 1/LenUnit mm^2
        inner == Mm(stdDiameter) - 2 * tdims.wallThickness
        crossSectionArea == MulDiv(MulDiv(inner, inner, LenUnit), PiNum, 4 * PiDen)
        \* (targetVolume * 1000) / crossSectionArea, in 1/LenUnit mm
        estimate == IF crossSectionArea = 0
                    THEN (Mm(stdDiameter) * MAX_HEIGHT_DIAMETER_RATIO) \div 10
                    ELSE MulDiv(targetVolume * 1000, LenUnit * LenUnit,
                                crossSectionArea)
        byDiameter == Clamp((Mm(stdDiameter) * MIN_HEIGHT_DIAMETER_RATIO) \div 10,
                            (Mm(stdDiameter) * MAX_HEIGHT_DIAMETER_RATIO) \div 10,
                            estimate)
        bodyHeight == Clamp(MulDiv(tdims.bodyHeight, MIN_HEIGHT_RATIO, 10),
                            MulDiv(tdims.bodyHeight, MAX_HEIGHT_RATIO, 10),
                            byDiameter)
        newDims == [tdims EXCEPT
                      !.diameter = Mm(stdDiameter),
                      !.baseDiameter = Mm(stdDiameter),
                      !.neckDiameter = Mm(stdCap.neckDiameter),
                      !.neckFinish = stdCap.neckFinish,
                      !.bodyHeight = bodyHeight,
                      !.height = bodyHeight + tdims.neckHeight,
                      !.shoulderCurveRadius =
                          MulDiv(tdims.shoulderCurveRadius, Mm(stdDiameter),
                                 tdims.diameter)]
    IN  [template EXCEPT !.dimensions = newDims]

\* scaleBottleToVolume past its guard: steps 1 to 5.
ScaleFromTemplate(template, targetVolume, id) ==
    LET scaledBottle == ScaledBottle(template, targetVolume)
        scaledVolume == calculate(scaledBottle)
        tuned == fineTuneVolume(scaledBottle, targetVolume, scaledVolume, 15)
    IN  finalizeBottle(enforceRatioLimits(tuned), targetVolume, id)

\* scaleBottleToVolume without the guard on the template's volume.
scaleBottleToVolumeUnguarded(template, targetVolume, id) ==
    ScaleFromTemplate(template, targetVolume, id)

scaleBottleToVolume(template, targetVolume, id) ==
    IF template.volume <= 0 THEN finalizeBottle(template, targetVolume, id)
    ELSE ScaleFromTemplate(template, targetVolume, id)

\* The values uuidv4() hands out, in the order of the calls.
Uuids ==
    << "u01", "u02", "u03", "u04", "u05", "u06", "u07", "u08", "u09", "u10",
       "u11", "u12", "u13", "u14", "u15", "u16", "u17", "u18", "u19", "u20",
       "u21", "u22", "u23", "u24", "u25", "u26", "u27", "u28", "u29", "u30",
       "u31", "u32", "u33", "u34", "u35", "u36", "u37", "u38", "u39", "u40",
       "u41", "u42", "u43", "u44", "u45", "u46", "u47", "u48", "u49", "u50",
       "u51", "u52", "u53", "u54", "u55", "u56", "u57", "u58", "u59", "u60",
       "u61", "u62", "u63", "u64" >>

\* The n-th identifier drawn since construction (n >= 1).
uuidv4(n) == Uuids[n]

\* generateSeries, the bottles taking the identifiers after the first `drawn`.
\* generateSeries that leaves out the bottle of the largest target volume.
generateSeriesWithoutLast(cfg, existingBottles, drawn) ==
    LET volumes == calculateVolumes(cfg)
        template == getTemplate(cfg.baseTemplateId, existingBottles)
    IN  [index \in 1..(Len(volumes) - 1) |->
            scaleBottleToVolume(template, volumes[index], uuidv4(drawn + index))]

generateSeries(cfg, existingBottles, drawn) ==
    LET volumes == calculateVolumes(cfg)
        template == getTemplate(cfg.baseTemplateId, existingBottles)
    IN  [index \in 1..Len(volumes) |->
            scaleBottleToVolume(template, volumes[index], uuidv4(drawn + index))]

---------------------------------------------------------------------------
(* FillRangeService (src/unnamed/part_003).  Percentages come in           *)
(* 1/PctUnit percent, so that the mean of two whole percentages is exact;  *)
(* a fill volume is volume * percent, in 1/FillUnit mL.                    *)

Pct(n) == n * PctUnit
Fill(n) == n * FillUnit

\* calculateFillRange as it would be if the two percentages were added and
\* not halved.
calculateFillRangeNoMean(bottle, minPercent, maxPercent) ==
    LET targetPercent == minPercent + maxPercent
    IN  [bottleId |-> bottle.id,
         bottleVolume |-> bottle.volume,
         minFill |-> bottle.volume * minPercent,
         targetFill |-> bottle.volume * targetPercent,
         maxFill |-> bottle.volume * maxPercent,
         minPercent |-> minPercent,
         targetPercent |-> targetPercent,
         maxPercent |-> maxPercent]

calculateFillRange(bottle, minPercent, maxPercent) ==
    LET targetPercent == (minPercent + maxPercent) \div 2
    IN  [bottleId |-> bottle.id,
         bottleVolume |-> bottle.volume,
         minFill |-> bottle.volume * minPercent,
         targetFill |-> bottle.volume * targetPercent,
         maxFill |-> bottle.volume * maxPercent,
         minPercent |-> minPercent,
         targetPercent |-> targetPercent,
         maxPercent |-> maxPercent]

calculateSeriesFillRanges(series) ==
    [i \in 1..Len(series.bottles) |->
        calculateFillRange(series.bottles[i], series.config.fillRangeMin,
                           series.config.fillRangeMax)]

calculateFillRanges(bottleList, minPercent, maxPercent) ==
    [i \in 1..Len(bottleList) |->
        calculateFillRange(bottleList[i], minPercent, maxPercent)]

\* Array.prototype.sort with (a, b) => a.minFill - b.minFill: stable, so a
\* range goes behind every range already placed whose minFill is not larger.
InsertByMinFill(sorted, r) ==
    LET before == {i \in 1..Len(sorted) : sorted[i].minFill <= r.minFill}
        k == Cardinality(before)
    IN  SubSeq(sorted, 1, k) \o <<r>> \o SubSeq(sorted, k + 1, Len(sorted))

RECURSIVE SortByMinFill(_)
SortByMinFill(ranges) ==
    IF ranges = <<>> THEN <<>>
    ELSE InsertByMinFill(SortByMinFill(SubSeq(ranges, 1, Len(ranges) - 1)),
                         ranges[Len(ranges)])

\* The loop of getTotalCoverage and of calculateSeriesCoverage from index i on.
RECURSIVE CoverageLoop(_, _, _, _)
CoverageLoop(sorted, i, totalCoverage, currentMax) ==
    IF i > Len(sorted) THEN totalCoverage
    ELSE LET range == sorted[i]
             effectiveMin == Max(range.minFill, currentMax)
         IN  IF range.maxFill > effectiveMin
             THEN CoverageLoop(sorted, i + 1,
                               totalCoverage + (range.maxFill - effectiveMin),
                               Max(currentMax, range.maxFill))
             ELSE CoverageLoop(sorted, i + 1, totalCoverage, currentMax)

\* getTotalCoverage as it would be if overlapping parts were counted twice.
getTotalCoverageNoUnion(ranges) ==
    LET length(r) == IF r.maxFill > r.minFill THEN r.maxFill - r.minFill ELSE 0
        total[k \in 0..Len(ranges)] ==
            IF k = 0 THEN 0 ELSE total[k - 1] + length(ranges[k])
    IN  total[Len(ranges)]

getTotalCoverage(ranges) ==
    IF Len(ranges) = 0 THEN 0
    ELSE LET sorted == SortByMinFill(ranges)
         IN  CoverageLoop(sorted, 1, 0, sorted[1].minFill)

---------------------------------------------------------------------------
(* ComparisonService (src/src/services/comparisonService.ts).  Coverage    *)
(* percentages come in 1/RatioUnit percent.                                *)

\* Gap severity thresholds, in mL.
GAP_SEVERITY_THRESHOLDS == [minor |-> 20, moderate |-> 50]

\* assessGapSeverity as it would be with the thresholds excluded.
assessGapSeverityExclusive(gapSize) ==
    IF gapSize < Fill(GAP_SEVERITY_THRESHOLDS.minor) THEN "minor"
    ELSE IF gapSize < Fill(GAP_SEVERITY_THRESHOLDS.moderate) THEN "moderate"
    ELSE "major"

assessGapSeverity(gapSize) ==
    IF gapSize <= Fill(GAP_SEVERITY_THRESHOLDS.minor) THEN "minor"
    ELSE IF gapSize <= Fill(GAP_SEVERITY_THRESHOLDS.moderate) THEN "moderate"
    ELSE "major"

CoverageGap(startVolume, endVolume) ==
    [startVolume |-> startVolume, endVolume |-> endVolume,
     gapSize |-> endVolume - startVolume,
     severity |-> assessGapSeverity(endVolume - startVolume)]

\* The loop shared by findGaps and findIntraSeriesGaps, from index i on.
RECURSIVE GapLoop(_, _, _, _)
GapLoop(sorted, i, runningMax, gaps) ==
    IF i > Len(sorted) THEN gaps
    ELSE LET nextMin == sorted[i].minFill
         IN  GapLoop(sorted, i + 1, Max(runningMax, sorted[i].maxFill),
                     IF nextMin > runningMax
                     THEN Append(gaps, CoverageGap(runningMax, nextMin))
                     ELSE gaps)

findIntraSeriesGaps(ranges) ==
    IF Len(ranges) <= 1 THEN <<>>
    ELSE LET sorted == SortByMinFill(ranges)
         IN  GapLoop(sorted, 2, sorted[1].maxFill, <<>>)

\* findGaps as it would be if each series were walked on its own.
findGapsPerSeries(r1, r2) ==
    findIntraSeriesGaps(r1) \o findIntraSeriesGaps(r2)

\* findGaps as it would be if the sweep started at volume 0.
findGapsFromZero(r1, r2) ==
    LET allRanges == SortByMinFill(r1 \o r2)
    IN  IF Len(allRanges) = 0 THEN <<>>
        ELSE GapLoop(allRanges, 1, 0, <<>>)

findGaps(r1, r2) ==
    LET allRanges == SortByMinFill(r1 \o r2)
    IN  IF Len(allRanges) = 0 THEN <<>>
        ELSE GapLoop(allRanges, 2, allRanges[1].maxFill, <<>>)

\* The index pairs <<i, j>> of an n by m double loop, in loop order.
LoopPairs(n, m) ==
    [k \in 1..(n * m) |-> <<((k - 1) \div m) + 1, ((k - 1) % m) + 1>>]

findIntraSeriesOverlaps(ranges) ==
    IF Len(ranges) <= 1 THEN <<>>
    ELSE
    LET overlapStart(p) == Max(ranges[p[1]].minFill, ranges[p[2]].minFill)
        overlapEnd(p) == Min(ranges[p[1]].maxFill, ranges[p[2]].maxFill)
        Hit(p) == p[1] < p[2] /\ overlapStart(p) < overlapEnd(p)
        hits == SelectSeq(LoopPairs(Len(ranges), Len(ranges)), Hit)
    IN  [k \in 1..Len(hits) |->
            [startVolume |-> overlapStart(hits[k]),
             endVolume |-> overlapEnd(hits[k]),
             overlapSize |-> overlapEnd(hits[k]) - overlapStart(hits[k]),
             bottle1Id |-> ranges[hits[k][1]].bottleId,
             bottle2Id |-> ranges[hits[k][2]].bottleId]]

\* findOverlaps as it would be if touching ranges counted as overlapping.
findOverlapsTouching(r1, r2) ==
    LET overlapStart(p) == Max(r1[p[1]].minFill, r2[p[2]].minFill)
        overlapEnd(p) == Min(r1[p[1]].maxFill, r2[p[2]].maxFill)
        Hit(p) == overlapStart(p) <= overlapEnd(p)
        hits == SelectSeq(LoopPairs(Len(r1), Len(r2)), Hit)
    IN  [k \in 1..Len(hits) |->
            [startVolume |-> overlapStart(hits[k]),
             endVolume |-> overlapEnd(hits[k]),
             overlapSize |-> overlapEnd(hits[k]) - overlapStart(hits[k]),
             series1Bottles |-> <<r1[hits[k][1]].bottleId>>,
             series2Bottles |-> <<r2[hits[k][2]].bottleId>>]]

findOverlaps(r1, r2) ==
    LET overlapStart(p) == Max(r1[p[1]].minFill, r2[p[2]].minFill)
        overlapEnd(p) == Min(r1[p[1]].maxFill, r2[p[2]].maxFill)
        Hit(p) == overlapStart(p) < overlapEnd(p)
        hits == SelectSeq(LoopPairs(Len(r1), Len(r2)), Hit)
    IN  [k \in 1..Len(hits) |->
            [startVolume |-> overlapStart(hits[k]),
             endVolume |-> overlapEnd(hits[k]),
             overlapSize |-> overlapEnd(hits[k]) - overlapStart(hits[k]),
             series1Bottles |-> <<r1[hits[k][1]].bottleId>>,
             series2Bottles |-> <<r2[hits[k][2]].bottleId>>]]

\* calculateSeriesCoverage as it would be without the sort by minFill.
calculateSeriesCoverageUnsorted(ranges) ==
    IF Len(ranges) = 0 THEN 0
    ELSE CoverageLoop(ranges, 1, 0, ranges[1].minFill)

calculateSeriesCoverage(ranges) ==
    IF Len(ranges) = 0 THEN 0
    ELSE LET sorted == SortByMinFill(ranges)
         IN  CoverageLoop(sorted, 1, 0, sorted[1].minFill)

\* gaps.reduce((sum, g) => sum + g.gapSize, 0), and the like for overlaps.
RECURSIVE SumOf(_, _)
SumOf(items, field) ==
    IF items = <<>> THEN 0
    ELSE SumOf(SubSeq(items, 1, Len(items) - 1), field)
         + items[Len(items)][field]

MinOf(S) == CHOOSE x \in S : \A y \in S : x <= y
MaxOf(S) == CHOOSE x \in S : \A y \in S : x >= y

\* (part / whole) * 100 for whole > 0, in 1/RatioUnit percent.
Percent(part, whole) == MulDiv(part, 100 * RatioUnit, whole)

\* calculateCoverage as it would be if the total range were that of the
\* first series alone.
calculateCoverageFirstSpan(r1, r2, gaps) ==
    LET allRanges == r1 \o r2
        basis == IF Len(r1) = 0 THEN r2 ELSE r1
    IN  IF Len(allRanges) = 0
        THEN [series1 |-> 0, series2 |-> 0, combined |-> 0]
        ELSE
        LET totalRange == MaxOf({basis[i].maxFill : i \in DOMAIN basis})
                          - MinOf({basis[i].minFill : i \in DOMAIN basis})
        IN  IF totalRange <= 0
            THEN [series1 |-> 100 * RatioUnit, series2 |-> 100 * RatioUnit,
                  combined |-> 100 * RatioUnit]
            ELSE [series1 |-> Percent(calculateSeriesCoverage(r1), totalRange),
                  series2 |-> Percent(calculateSeriesCoverage(r2), totalRange),
                  combined |->
                    Min(100 * RatioUnit,
                        Max(0, Percent(totalRange - SumOf(gaps, "gapSize"),
                                       totalRange)))]

\* calculateCoverage as it would be if each series were measured against its
\* own span instead of the combined one.
calculateCoverageOwnSpan(r1, r2, gaps) ==
    LET span(r) == MaxOf({r[i].maxFill : i \in DOMAIN r})
                   - MinOf({r[i].minFill : i \in DOMAIN r})
        own(r) == IF Len(r) = 0 THEN 0
                  ELSE IF span(r) <= 0 THEN 100 * RatioUnit
                  ELSE Percent(calculateSeriesCoverage(r), span(r))
        allRanges == r1 \o r2
    IN  IF Len(allRanges) = 0
        THEN [series1 |-> 0, series2 |-> 0, combined |-> 0]
        ELSE IF span(allRanges) <= 0
        THEN [series1 |-> 100 * RatioUnit, series2 |-> 100 * RatioUnit,
              combined |-> 100 * RatioUnit]
        ELSE [series1 |-> own(r1), series2 |-> own(r2),
              combined |->
                Min(100 * RatioUnit,
                    Max(0, Percent(span(allRanges) - SumOf(gaps, "gapSize"),
                                   span(allRanges))))]

calculateCoverage(r1, r2, gaps) ==
    LET allRanges == r1 \o r2
    IN  IF Len(allRanges) = 0
        THEN [series1 |-> 0, series2 |-> 0, combined |-> 0]
        ELSE
        LET minVolume == MinOf({allRanges[i].minFill : i \in DOMAIN allRanges})
            maxVolume == MaxOf({allRanges[i].maxFill : i \in DOMAIN allRanges})
            totalRange == maxVolume - minVolume
        IN  IF totalRange <= 0
            THEN [series1 |-> 100 * RatioUnit, series2 |-> 100 * RatioUnit,
                  combined |-> 100 * RatioUnit]
            ELSE
            LET totalGapSize == SumOf(gaps, "gapSize")
                combinedCoverage == Percent(totalRange - totalGapSize, totalRange)
            IN  [series1 |-> Percent(calculateSeriesCoverage(r1), totalRange),
                 series2 |-> Percent(calculateSeriesCoverage(r2), totalRange),
                 combined |-> Min(100 * RatioUnit, Max(0, combinedCoverage))]

\* analyzeSeriesInternal with the fill ranges given; a caller that passes
\* none has them computed by calculateSeriesFillRanges.
analyzeSeriesInternal(series, fillRanges) ==
    IF Len(fillRanges) = 0
    THEN [seriesId |-> series.id, seriesName |-> series.name,
          gaps |-> <<>>, totalGapSize |-> 0,
          overlaps |-> <<>>, totalOverlapSize |-> 0,
          coverageSpan |-> 0, coveredRange |-> 0,
          coverageEfficiency |-> 100 * RatioUnit,
          spaceUtilization |-> 100 * RatioUnit]
    ELSE
    LET gaps == findIntraSeriesGaps(fillRanges)
        overlaps == findIntraSeriesOverlaps(fillRanges)
        minFill == MinOf({fillRanges[i].minFill : i \in DOMAIN fillRanges})
        maxFill == MaxOf({fillRanges[i].maxFill : i \in DOMAIN fillRanges})
        coverageSpan == maxFill - minFill
        coveredRange == getTotalCoverage(fillRanges)
        minVolume == MinOf({fillRanges[i].bottleVolume : i \in DOMAIN fillRanges})
        maxVolume == MaxOf({fillRanges[i].bottleVolume : i \in DOMAIN fillRanges})
        \* the bottle volume range, brought to 1/FillUnit mL
        volumeRange == (maxVolume - minVolume) * (FillUnit \div VolUnit)
    IN  [seriesId |-> series.id, seriesName |-> series.name,
         gaps |-> gaps, totalGapSize |-> SumOf(gaps, "gapSize"),
         overlaps |-> overlaps,
         totalOverlapSize |-> SumOf(overlaps, "overlapSize"),
         coverageSpan |-> coverageSpan, coveredRange |-> coveredRange,
         coverageEfficiency |->
            IF coverageSpan > 0 THEN Percent(coveredRange, coverageSpan)
                                ELSE 100 * RatioUnit,
         spaceUtilization |->
            IF volumeRange > 0
            THEN IF coveredRange >= volumeRange THEN 100 * RatioUnit
                 ELSE Percent(coveredRange, volumeRange)
            ELSE 100 * RatioUnit]

\* A recommendation string, as the template it is built from and the numbers
\* put into it (volumes rounded to whole mL).
GapAdvice(kind, who, gap) ==
    [kind |-> kind, who |-> who,
     suggestedVolume |-> RoundTo(gap.startVolume + gap.endVolume, 2 * FillUnit),
     startVolume |-> RoundTo(gap.startVolume, FillUnit),
     endVolume |-> RoundTo(gap.endVolume, FillUnit),
     gapSize |-> RoundTo(gap.gapSize, FillUnit)]

Note(kind, who) ==
    [kind |-> kind, who |-> who, suggestedVolume |-> 0, startVolume |-> 0,
     endVolume |-> 0, gapSize |-> 0]

OfSeverity(gaps, severity) ==
    LET Is(g) == g.severity = severity IN SelectSeq(gaps, Is)

AdviceFor(kind, who, gaps) ==
    [k \in 1..Len(gaps) |-> GapAdvice(kind, who, gaps[k])]

\* An analysis argument that was not passed (undefined).
NoAnalysis == [undefined |-> TRUE]

\* generateRecommendations that warns of redundancy from three overlaps on.
generateRecommendationsFromThree(gaps, overlaps, coverage, series1Analysis, series2Analysis) ==
    LET recommendations ==
               (IF series1Analysis # NoAnalysis /\ Len(series1Analysis.gaps) > 0
                THEN AdviceFor("internal-gap", series1Analysis.seriesName,
                               OfSeverity(series1Analysis.gaps, "major"))
                ELSE <<>>)
            \o (IF series2Analysis # NoAnalysis /\ Len(series2Analysis.gaps) > 0
                THEN AdviceFor("internal-gap", series2Analysis.seriesName,
                               OfSeverity(series2Analysis.gaps, "major"))
                ELSE <<>>)
            \o (IF /\ series1Analysis # NoAnalysis
                   /\ series1Analysis.coverageEfficiency < 80 * RatioUnit
                THEN <<Note("low-efficiency", series1Analysis.seriesName)>>
                ELSE <<>>)
            \o (IF /\ series2Analysis # NoAnalysis
                   /\ series2Analysis.coverageEfficiency < 80 * RatioUnit
                THEN <<Note("low-efficiency", series2Analysis.seriesName)>>
                ELSE <<>>)
            \o AdviceFor("major-gap", "Combined", OfSeverity(gaps, "major"))
            \o AdviceFor("moderate-gap", "Combined", OfSeverity(gaps, "moderate"))
            \o (IF Len(overlaps) > 2
                THEN <<Note("redundant-overlaps", "Combined")>> ELSE <<>>)
            \o (IF coverage.combined < 80 * RatioUnit
                THEN <<Note("low-coverage", "Combined")>> ELSE <<>>)
            \o (IF coverage.series1 < coverage.series2 - 10 * RatioUnit
                THEN <<Note("lower-coverage", "Series 1")>>
                ELSE IF coverage.series2 < coverage.series1 - 10 * RatioUnit
                THEN <<Note("lower-coverage", "Series 2")>>
                ELSE <<>>)
    IN  IF Len(recommendations) = 0
        THEN <<Note("well-optimized", "Combined")>>
        ELSE recommendations

generateRecommendations(gaps, overlaps, coverage, series1Analysis, series2Analysis) ==
    LET recommendations ==
               (IF series1Analysis # NoAnalysis /\ Len(series1Analysis.gaps) > 0
                THEN AdviceFor("internal-gap", series1Analysis.seriesName,
                               OfSeverity(series1Analysis.gaps, "major"))
                ELSE <<>>)
            \o (IF series2Analysis # NoAnalysis /\ Len(series2Analysis.gaps) > 0
                THEN AdviceFor("internal-gap", series2Analysis.seriesName,
                               OfSeverity(series2Analysis.gaps, "major"))
                ELSE <<>>)
            \o (IF /\ series1Analysis # NoAnalysis
                   /\ series1Analysis.coverageEfficiency < 80 * RatioUnit
                THEN <<Note("low-efficiency", series1Analysis.seriesName)>>
                ELSE <<>>)
            \o (IF /\ series2Analysis # NoAnalysis
                   /\ series2Analysis.coverageEfficiency < 80 * RatioUnit
                THEN <<Note("low-efficiency", series2Analysis.seriesName)>>
                ELSE <<>>)
            \o AdviceFor("major-gap", "Combined", OfSeverity(gaps, "major"))
            \o AdviceFor("moderate-gap", "Combined", OfSeverity(gaps, "moderate"))
            \o (IF Len(overlaps) > 3
                THEN <<Note("redundant-overlaps", "Combined")>> ELSE <<>>)
            \o (IF coverage.combined < 80 * RatioUnit
                THEN <<Note("low-coverage", "Combined")>> ELSE <<>>)
            \o (IF coverage.series1 < coverage.series2 - 10 * RatioUnit
                THEN <<Note("lower-coverage", "Series 1")>>
                ELSE IF coverage.series2 < coverage.series1 - 10 * RatioUnit
                THEN <<Note("lower-coverage", "Series 2")>>
                ELSE <<>>)
    IN  IF Len(recommendations) = 0
        THEN <<Note("well-optimized", "Combined")>>
        ELSE recommendations

\* The comparison of two series; its name stands for the string
\* `${series1.name} vs ${series2.name}`.
compareSeries(s1, s2, id) ==
    LET r1 == calculateSeriesFillRanges(s1)
        r2 == calculateSeriesFillRanges(s2)
        series1Analysis == analyzeSeriesInternal(s1, r1)
        series2Analysis == analyzeSeriesInternal(s2, r2)
        gaps == findGaps(r1, r2)
        overlaps == findOverlaps(r1, r2)
        coverage == calculateCoverage(r1, r2, gaps)
    IN  [id |-> id,
         name |-> <<s1.name, s2.name>>,
         series1Id |-> s1.id, series2Id |-> s2.id,
         series1Analysis |-> series1Analysis,
         series2Analysis |-> series2Analysis,
         gaps |-> gaps, overlaps |-> overlaps,
         series1Coverage |-> coverage.series1,
         series2Coverage |-> coverage.series2,
         combinedCoverage |-> coverage.combined,
         recommendations |->
            generateRecommendations(gaps, overlaps, coverage, series1Analysis,
                                    series2Analysis),
         notes |-> ""]

---------------------------------------------------------------------------
(* Calls of the series generator on drawn configurations.                  *)

Algorithms == {"linear", "golden-ratio", "logarithmic"}

\* The bottle counts a configuration may ask for.
MinCount == 3
MaxCount == 10

\* <<minVolume, maxVolume>> in mL: the default range, a narrow one, a single
\* volume, the widest ratio followed, and one across all standard diameters.
VolumePairs == {<<65, 700>>, <<100, 150>>, <<50, 50>>, <<2, 2000>>, <<30, 1000>>}

\* Two shapes, and a name that is neither a shape nor a stored bottle.
GenTemplates == {"boston-round", "oval", "no-such-template"}

GenerationConfig(algorithm, minVolume, maxVolume, bottleCount, baseTemplateId, fillRangeMin, fillRangeMax) ==
    [algorithm |-> algorithm, minVolume |-> minVolume, maxVolume |-> maxVolume,
     bottleCount |-> bottleCount, baseTemplateId |-> baseTemplateId,
     fillRangeMin |-> fillRangeMin, fillRangeMax |-> fillRangeMax]

DEFAULT_GENERATION_CONFIG ==
    GenerationConfig("linear", 65, 700, 5, "boston-round", Pct(65), Pct(85))

GenConfigs ==
    {GenerationConfig(a, v[1], v[2], n, t, Pct(65), Pct(85)) :
        a \in Algorithms, v \in VolumePairs, n \in MinCount..MaxCount,
        t \in GenTemplates}

NoCall == [op |-> "none", out |-> <<>>]
NoArgs == <<>>
NoFrame == [pc |-> "idle"]
NoMap == [k \in {} |-> k]

\* The parts of the state a harness leaves alone.
StoreIdle ==
    /\ bottles = NoMap /\ bottleSeries = NoMap /\ seriesComparisons = NoMap
    /\ activeSeriesId = Null /\ activeSeriesComparisonId = Null
    /\ nextUuid = 0

GenInit ==
    /\ StoreIdle
    /\ config \in GenConfigs
    /\ ranges1 = <<>> /\ ranges2 = <<>>
    /\ series1 = Null /\ series2 = Null
    /\ args = NoArgs
    /\ frame = NoFrame
    /\ ret = NoCall

CallCalculateVolumes ==
    /\ ret' = [op |-> "calculateVolumes", out |-> calculateVolumes(config)]
    /\ UNCHANGED <<bottles, bottleSeries, seriesComparisons, activeSeriesId,
                   activeSeriesComparisonId, nextUuid, config, ranges1,
                   ranges2, series1, series2, args,
                   frame>>

CallGenerateSeries ==
    /\ ret' = [op |-> "generateSeries",
               out |-> generateSeries(config, bottles, nextUuid)]
    /\ UNCHANGED <<bottles, bottleSeries, seriesComparisons, activeSeriesId,
                   activeSeriesComparisonId, nextUuid, config, ranges1,
                   ranges2, series1, series2, args,
                   frame>>

GenNext == CallCalculateVolumes \/ CallGenerateSeries

GenSpec == GenInit /\ [][GenNext]_vars

---------------------------------------------------------------------------
(* Calls of the fill-range and coverage operations on drawn range lists.   *)

\* A bottle of a given volume (whole mL) that only its id and volume are
\* read of.
BottleOfVolume(id, volume) ==
    [createTemplateFromShape("boston-round") EXCEPT !.id = id,
                                                    !.volume = Ml(volume)]

\* <<volume in mL, minPercent, maxPercent>> of the ranges lists are drawn
\* from.  In mL: [0,10] [5,15] [42,55] [68,89] [50,70], the point [30,30],
\* [15,20] touching [5,15], and [60,40] whose ends are swapped.
RangeSeeds ==
    << <<100, 0, 10>>, <<100, 5, 15>>, <<100, 42, 55>>, <<100, 68, 89>>,
       <<100, 50, 70>>, <<100, 30, 30>>, <<50, 30, 40>>, <<100, 60, 40>> >>

RangeOfSeed(k) ==
    calculateFillRange(BottleOfVolume(uuidv4(k), RangeSeeds[k][1]),
                       Pct(RangeSeeds[k][2]), Pct(RangeSeeds[k][3]))

RangePool == {RangeOfSeed(k) : k \in DOMAIN RangeSeeds}

\* How many ranges the two lists of a call hold together, at most.
MaxRanges == 3

RangeLists(longest) == UNION {[1..n -> RangePool] : n \in 0..longest}

CovInit ==
    /\ StoreIdle
    /\ config = DEFAULT_GENERATION_CONFIG
    /\ ranges1 \in RangeLists(MaxRanges)
    /\ ranges2 \in RangeLists(MaxRanges - Len(ranges1))
    /\ series1 = Null /\ series2 = Null
    /\ args = NoArgs
    /\ frame = NoFrame
    /\ ret = NoCall

CovFrame ==
    UNCHANGED <<bottles, bottleSeries, seriesComparisons, activeSeriesId,
                activeSeriesComparisonId, nextUuid, config, ranges1, ranges2,
                series1, series2, args, frame>>

CallGetTotalCoverage ==
    /\ ret' = [op |-> "getTotalCoverage", out |-> getTotalCoverage(ranges1)]
    /\ CovFrame

CallFindGaps ==
    /\ ret' = [op |-> "findGaps", out |-> findGaps(ranges1, ranges2)]
    /\ CovFrame

CallFindIntraSeriesGaps ==
    /\ ret' = [op |-> "findIntraSeriesGaps",
               out |-> findIntraSeriesGaps(ranges1)]
    /\ CovFrame

CallFindOverlaps ==
    /\ ret' = [op |-> "findOverlaps", out |-> findOverlaps(ranges1, ranges2)]
    /\ CovFrame

CallFindIntraSeriesOverlaps ==
    /\ ret' = [op |-> "findIntraSeriesOverlaps",
               out |-> findIntraSeriesOverlaps(ranges1)]
    /\ CovFrame

\* calculateCoverage as compareSeries calls it: with the gaps of findGaps.
CallCalculateCoverage ==
    /\ ret' = [op |-> "calculateCoverage",
               out |-> calculateCoverage(ranges1, ranges2,
                                         findGaps(ranges1, ranges2))]
    /\ CovFrame

\* calculateSeriesCoverage as calculateCoverage calls it: on the fill ranges
\* of one series.
CallCalculateSeriesCoverage ==
    /\ ret' = [op |-> "calculateSeriesCoverage",
               out |-> calculateSeriesCoverage(ranges1)]
    /\ CovFrame

CovNext ==
    \/ CallGetTotalCoverage
    \/ CallCalculateSeriesCoverage
    \/ CallFindGaps
    \/ CallFindIntraSeriesGaps
    \/ CallFindOverlaps
    \/ CallFindIntraSeriesOverlaps
    \/ CallCalculateCoverage

CovSpec == CovInit /\ [][CovNext]_vars

---------------------------------------------------------------------------
(* What the coverage operations are to compute, stated on sets of points   *)
(* and intervals rather than by a walk over a sorted list.                 *)

WellFormed(ranges) ==
    \A i \in DOMAIN ranges : ranges[i].minFill <= ranges[i].maxFill

Endpoints(ranges) ==
    {ranges[i].minFill : i \in DOMAIN ranges}
        \cup {ranges[i].maxFill : i \in DOMAIN ranges}

\* Whether the volume x / 2 lies in some range [minFill, maxFill].
Covered2(ranges, x) ==
    \E i \in DOMAIN ranges :
        2 * ranges[i].minFill <= x /\ x <= 2 * ranges[i].maxFill

\* Twice every endpoint and twice every midpoint of two endpoints: a point
\* of each interval the endpoints cut the line into.
Probes2(ranges) == {a + b : a, b \in Endpoints(ranges)}

\* The intervals between neighbouring endpoints that lie in some range.
CoveredSegments(ranges) ==
    {s \in Endpoints(ranges) \X Endpoints(ranges) :
        /\ s[1] < s[2]
        /\ \A e \in Endpoints(ranges) : ~(s[1] < e /\ e < s[2])
        /\ \E i \in DOMAIN ranges :
              ranges[i].minFill <= s[1] /\ s[2] <= ranges[i].maxFill}

RECURSIVE TotalLength(_)
TotalLength(segments) ==
    IF segments = {} THEN 0
    ELSE LET s == CHOOSE x \in segments : TRUE
         IN  (s[2] - s[1]) + TotalLength(segments \ {s})

\* The length of the union of the intervals [minFill, maxFill].
UnionLength(ranges) == TotalLength(CoveredSegments(ranges))

Reverse(seq) == [i \in 1..Len(seq) |-> seq[Len(seq) + 1 - i]]

\* gaps are exactly the maximal uncovered intervals inside the hull of ranges.
MaximalUncovered(gaps, ranges) ==
    /\ \A k \in DOMAIN gaps :
          /\ gaps[k].gapSize = gaps[k].endVolume - gaps[k].startVolume
          /\ gaps[k].gapSize > 0
          \* it meets no range
          /\ \A i \in DOMAIN ranges :
                ~(/\ ranges[i].minFill < gaps[k].endVolume
                  /\ ranges[i].maxFill > gaps[k].startVolume)
          \* it cannot be extended: both ends are covered
          /\ Covered2(ranges, 2 * gaps[k].startVolume)
          /\ Covered2(ranges, 2 * gaps[k].endVolume)
    \* every uncovered volume of the hull is in one of them
    /\ \A x \in Probes2(ranges) :
          ~Covered2(ranges, x) =>
             \E k \in DOMAIN gaps :
                2 * gaps[k].startVolume < x /\ x < 2 * gaps[k].endVolume
    \* disjoint and ascending
    /\ \A k, l \in DOMAIN gaps :
          k < l => gaps[k].endVolume <= gaps[l].startVolume

ExampleA == <<RangeOfSeed(3), RangeOfSeed(4)>>
ExampleB == <<RangeOfSeed(5)>>

\* C4: for well-formed fill ranges, findGaps returns exactly the maximal
\* uncovered intervals inside the hull of all ranges of both series (meeting
\* no range, holding every uncovered volume, disjoint, ascending, with
\* gapSize = endVolume - startVolume > 0); findIntraSeriesGaps returns the
\* same on the pooled list; A = [42,55],[68,89] with B = [50,70] has no gap.
Thm_C4 ==
    /\ (ret.op = "findGaps" /\ WellFormed(ranges1 \o ranges2)) =>
          /\ MaximalUncovered(ret.out, ranges1 \o ranges2)
          /\ ret.out = findIntraSeriesGaps(ranges1 \o ranges2)
    /\ (ret.op = "findIntraSeriesGaps" /\ WellFormed(ranges1)) =>
          /\ MaximalUncovered(ret.out, ranges1)
          /\ ret.out = findGaps(ranges1, <<>>)
    /\ (ret.op = "findGaps" /\ ranges1 = ExampleA /\ ranges2 = ExampleB) =>
          ret.out = <<>>

\* A's own gap [55,68] is bridged by B's [50,70].
Wit_C4 ==
    /\ ret.op = "findGaps"
    /\ ranges1 = ExampleA /\ ranges2 = ExampleB
    /\ ret.out = <<>>
    /\ Len(findIntraSeriesGaps(ranges1)) = 1

\* C5: for well-formed fill ranges, getTotalCoverage returns the length of
\* the union of the intervals [minFill, maxFill], whatever the order of the
\* list; [0,10] with [5,15] gives 15 and the empty list gives 0.
Thm_C5 ==
    (ret.op = "getTotalCoverage" /\ WellFormed(ranges1)) =>
        /\ ret.out = UnionLength(ranges1)
        /\ ret.out = getTotalCoverage(Reverse(ranges1))
        /\ ranges1 = <<>> => ret.out = 0
        /\ ranges1 = <<RangeOfSeed(1), RangeOfSeed(2)>> => ret.out = Fill(15)

Wit_C5 ==
    /\ ret.op = "getTotalCoverage"
    /\ ranges1 = <<RangeOfSeed(2), RangeOfSeed(1)>>
    /\ ret.out = Fill(15)

\* The sum of the gap sizes, taken over the positions of the list.
GapTotal(gaps) ==
    LET total[k \in 0..Len(gaps)] ==
            IF k = 0 THEN 0 ELSE total[k - 1] + gaps[k].gapSize
    IN  total[Len(gaps)]

\* C8: calculateCoverage returns, with T the span from the least minFill to
\* the greatest maxFill of both series, series_k = (union length of series
\* k's ranges) / T * 100 and combined = (T - sum of gap sizes) / T * 100
\* clamped to [0,100]; (0,0,0) when both lists are empty and (100,100,100)
\* when T <= 0.
Thm_C8 ==
    ret.op = "calculateCoverage" =>
        LET all == ranges1 \o ranges2
            gaps == findGaps(ranges1, ranges2)
            T == MaxOf({all[i].maxFill : i \in DOMAIN all})
                 - MinOf({all[i].minFill : i \in DOMAIN all})
        IN  IF all = <<>>
            THEN ret.out = [series1 |-> 0, series2 |-> 0, combined |-> 0]
            ELSE IF T <= 0
            THEN ret.out = [series1 |-> 100 * RatioUnit,
                            series2 |-> 100 * RatioUnit,
                            combined |-> 100 * RatioUnit]
            ELSE /\ ret.out.series1 = Percent(UnionLength(ranges1), T)
                 /\ ret.out.series2 = Percent(UnionLength(ranges2), T)
                 /\ ret.out.combined =
                        Clamp(0, 100 * RatioUnit,
                              Percent(T - GapTotal(gaps), T))

\* Two series of different spans, with a gap left between them.
Wit_C8 ==
    /\ ret.op = "calculateCoverage"
    /\ ranges1 = <<RangeOfSeed(1), RangeOfSeed(2)>>
    /\ ranges2 = <<RangeOfSeed(3)>>
    /\ ret.out.series1 = Percent(Fill(15), Fill(55))
    /\ ret.out.series2 = Percent(Fill(13), Fill(55))
    /\ ret.out.combined = Percent(Fill(28), Fill(55))

\* How often a record occurs in a list.
Count(list, x) == Cardinality({k \in DOMAIN list : list[k] = x})

\* C9: findOverlaps reports one overlap for exactly the pairs (a of series
\* 1, b of series 2) with max(a.minFill, b.minFill) < min(a.maxFill,
\* b.maxFill), of that interval's length, and none for two ranges of the same
\* series; ranges that only touch give neither an overlap nor a gap;
\* findIntraSeriesOverlaps reports each unordered pair of one series at most
\* once, under the same condition.
Thm_C9 ==
    /\ ret.op = "findOverlaps" =>
          LET lo(p) == Max(ranges1[p[1]].minFill, ranges2[p[2]].minFill)
              hi(p) == Min(ranges1[p[1]].maxFill, ranges2[p[2]].maxFill)
              pairs == {p \in (DOMAIN ranges1) \X (DOMAIN ranges2) : lo(p) < hi(p)}
              report(p) ==
                  [startVolume |-> lo(p), endVolume |-> hi(p),
                   overlapSize |-> hi(p) - lo(p),
                   series1Bottles |-> <<ranges1[p[1]].bottleId>>,
                   series2Bottles |-> <<ranges2[p[2]].bottleId>>]
          IN  /\ Len(ret.out) = Cardinality(pairs)
              /\ \A p \in pairs :
                    Count(ret.out, report(p))
                        = Cardinality({q \in pairs : report(q) = report(p)})
              /\ \A k \in DOMAIN ret.out : ret.out[k].overlapSize > 0
    /\ ret.op = "findGaps" =>
          \A i \in DOMAIN ranges1, j \in DOMAIN ranges2 :
             \A x \in ({ranges1[i].maxFill} \cap {ranges2[j].minFill})
                      \cup ({ranges2[j].maxFill} \cap {ranges1[i].minFill}) :
                \A k \in DOMAIN ret.out :
                    /\ ~(ret.out[k].startVolume < x /\ x < ret.out[k].endVolume)
                    /\ ret.out[k].gapSize > 0
    /\ ret.op = "findIntraSeriesOverlaps" =>
          LET lo(p) == Max(ranges1[p[1]].minFill, ranges1[p[2]].minFill)
              hi(p) == Min(ranges1[p[1]].maxFill, ranges1[p[2]].maxFill)
              pairs == {p \in (DOMAIN ranges1) \X (DOMAIN ranges1) :
                            p[1] < p[2] /\ lo(p) < hi(p)}
              report(p) ==
                  [startVolume |-> lo(p), endVolume |-> hi(p),
                   overlapSize |-> hi(p) - lo(p),
                   bottle1Id |-> ranges1[p[1]].bottleId,
                   bottle2Id |-> ranges1[p[2]].bottleId]
          IN  /\ Len(ret.out) = Cardinality(pairs)
              /\ \A p \in pairs :
                    Count(ret.out, report(p))
                        = Cardinality({q \in pairs : report(q) = report(p)})

\* [5,15] of series 1 overlaps [0,10] of series 2 on [5,10] and only touches
\* [15,20]: one overlap, and no gap.
Wit_C9 ==
    /\ ret.op = "findOverlaps"
    /\ ranges1 = <<RangeOfSeed(2)>>
    /\ ranges2 = <<RangeOfSeed(1), RangeOfSeed(7)>>
    /\ Len(ret.out) = 1
    /\ ret.out[1].startVolume = Fill(5) /\ ret.out[1].endVolume = Fill(10)
    /\ findGaps(ranges1, ranges2) = <<>>

---------------------------------------------------------------------------
(* Calls of calculateFillRange and compareSeries on drawn series.          *)

\* Bottle volumes in mL, the empty bottle among them.
SeriesVolumes == {0, 16, 20, 40}

\* <<fillRangeMin, fillRangeMax>> in percent: the ends of the scale, a single
\* percentage, and a pair entered the wrong way round.
PercentPairs == {<<25, 50>>, <<0, 100>>, <<50, 50>>, <<50, 25>>}

\* How many bottles the two series of a call hold together, at most.
MaxBottles == 3

\* The series named `name` with bottles of the given volumes, the k-th
\* carrying the identifier after the first `drawn`.
SeriesOf(name, volumes, percents, drawn) ==
    [id |-> name, name |-> name,
     config |-> [DEFAULT_GENERATION_CONFIG EXCEPT
                    !.bottleCount = Len(volumes),
                    !.fillRangeMin = Pct(percents[1]),
                    !.fillRangeMax = Pct(percents[2])],
     bottles |-> [k \in 1..Len(volumes) |->
                    BottleOfVolume(uuidv4(drawn + k), volumes[k])]]

VolumeLists(longest) == UNION {[1..n -> SeriesVolumes] : n \in 0..longest}

CmpInit ==
    /\ StoreIdle
    /\ config = DEFAULT_GENERATION_CONFIG
    /\ ranges1 = <<>> /\ ranges2 = <<>>
    /\ series1 \in {SeriesOf("A", v, p, 0) :
                        v \in VolumeLists(MaxBottles), p \in PercentPairs}
    /\ series2 \in {SeriesOf("B", v, p, MaxBottles) :
                        v \in VolumeLists(MaxBottles - Len(series1.bottles)),
                        p \in PercentPairs}
    /\ args = NoArgs
    /\ frame = NoFrame
    /\ ret = NoCall

CallCalculateSeriesFillRanges ==
    /\ ret' = [op |-> "calculateSeriesFillRanges",
               out |-> calculateSeriesFillRanges(series1)]
    /\ CovFrame

CallAnalyzeSeriesInternal ==
    /\ ret' = [op |-> "analyzeSeriesInternal",
               out |-> analyzeSeriesInternal(series1,
                           calculateSeriesFillRanges(series1))]
    /\ CovFrame

CallCompareSeries ==
    /\ ret' = [op |-> "compareSeries",
               out |-> compareSeries(series1, series2,
                                     uuidv4(2 * MaxBottles + 1))]
    /\ CovFrame

\* The gap and overlap detectors, called as compareSeries and
\* analyzeSeriesInternal call them: on the fill ranges of the drawn series.
CallFindIntraSeriesGapsOfSeries ==
    /\ ret' = [op |-> "findIntraSeriesGaps",
               out |-> findIntraSeriesGaps(calculateSeriesFillRanges(series1))]
    /\ CovFrame

CallFindIntraSeriesOverlapsOfSeries ==
    /\ ret' = [op |-> "findIntraSeriesOverlaps",
               out |-> findIntraSeriesOverlaps(calculateSeriesFillRanges(series1))]
    /\ CovFrame

CallFindGapsOfSeries ==
    /\ ret' = [op |-> "findGaps",
               out |-> findGaps(calculateSeriesFillRanges(series1),
                                calculateSeriesFillRanges(series2))]
    /\ CovFrame

CallFindOverlapsOfSeries ==
    /\ ret' = [op |-> "findOverlaps",
               out |-> findOverlaps(calculateSeriesFillRanges(series1),
                                    calculateSeriesFillRanges(series2))]
    /\ CovFrame

CmpNext ==
    \/ CallCalculateSeriesFillRanges
    \/ CallAnalyzeSeriesInternal
    \/ CallCompareSeries
    \/ CallFindIntraSeriesGapsOfSeries
    \/ CallFindIntraSeriesOverlapsOfSeries
    \/ CallFindGapsOfSeries
    \/ CallFindOverlapsOfSeries

CmpSpec == CmpInit /\ [][CmpNext]_vars

\* The gaps of a comparison, as a set of intervals.
GapIntervals(comparison) ==
    {<<comparison.gaps[k].startVolume, comparison.gaps[k].endVolume>> :
        k \in DOMAIN comparison.gaps}

\* What compareSeries(A, B) and compareSeries(B, A) are to agree on.
Symmetric(ab, ba) ==
    /\ ab.series1Coverage = ba.series2Coverage
    /\ ab.series2Coverage = ba.series1Coverage
    /\ ab.combinedCoverage = ba.combinedCoverage
    /\ GapIntervals(ab) = GapIntervals(ba)

PercentsOrdered(series) ==
    series.config.fillRangeMin <= series.config.fillRangeMax

FillRangeInvariant(ranges, minPercent, maxPercent) ==
    \A k \in DOMAIN ranges :
        /\ ranges[k].minFill <= ranges[k].targetFill
        /\ ranges[k].targetFill <= ranges[k].maxFill
        /\ ranges[k].maxFill <= ranges[k].bottleVolume * Pct(100)
        /\ ranges[k].minFill = ranges[k].bottleVolume * minPercent
        /\ ranges[k].maxFill = ranges[k].bottleVolume * maxPercent
        /\ 2 * ranges[k].targetFill
              = ranges[k].bottleVolume * (minPercent + maxPercent)

---------------------------------------------------------------------------
(* The series generator.                                                   *)

\* Whether a bottle's two derived fields are what the volume engine computes
\* from its shape and its dimensions, to a hundredth of a mL and a tenth of
\* a cm^2.
DerivedFieldsAgree(bottle) ==
    /\ Abs(bottle.volume - calculate(bottle)) <= VolUnit \div 100
    /\ Abs(bottle.surfaceArea - calculateSurfaceArea(bottle)) <= 10

\* C1: every bottle generateSeries returns has a volume, and a surface area,
\* equal to what the volume engine computes from that bottle's shape and its
\* returned, rounded dimensions.
Cex_C1 ==
    ret.op = "generateSeries" =>
        \A k \in DOMAIN ret.out : DerivedFieldsAgree(ret.out[k])

NonDecreasing(volumes) ==
    \A k \in 1..(Len(volumes) - 1) : volumes[k] <= volumes[k + 1]

\* C3: for each of the three algorithms, every 0 < minVolume <= maxVolume
\* and every bottleCount in 3..10, the target volumes calculateVolumes returns
\* are non-decreasing in list order.
Cex_C3 ==
    (/\ ret.op = "calculateVolumes"
     /\ 0 < config.minVolume /\ config.minVolume <= config.maxVolume
     /\ config.bottleCount \in 3..10) =>
        NonDecreasing(ret.out)

---------------------------------------------------------------------------
(* The store (src/src/components/presets/PresetLibrary.tsx): the bottle    *)
(* library, the series and the comparisons, with the actions on them.      *)
(* Lineups, the active bottle, the ui and the settings are left out: no     *)
(* action below reads them.                                                *)

Put(map, key, value) ==
    [k \in DOMAIN map \cup {key} |-> IF k = key THEN value ELSE map[k]]

Remove(map, keys) == [k \in DOMAIN map \ keys |-> map[k]]

\* The store acts while it has drawn fewer identifiers than this.
MaxUuid == 6

\* How much the store holds.
MaxStoredBottles == 1
MaxStoredSeries == 2
MaxStoredComparisons == 1

\* An identifier no record is stored under.
NoSuchId == "missing"

\* What addBottle is called with: a shape, and dimensions laid over the
\* shape's defaults.
BottleData ==
    {[shape |-> "packer",
      dimensions |-> [bodyHeight |-> Mm(60), height |-> Mm(75)]]}

\* The configurations series are created and regenerated with.  The base
\* template may also be a bottle of the library.
StoreConfigs ==
    {GenerationConfig("linear", 65, 700, 3, "boston-round", Pct(65), Pct(85)),
     GenerationConfig("golden-ratio", 100, 150, 4, "oval", Pct(50), Pct(90))}

ConfigsOver(library) ==
    {[c EXCEPT !.baseTemplateId = t] :
        c \in StoreConfigs,
        t \in {c.baseTemplateId : c \in StoreConfigs} \cup DOMAIN library}

Init ==
    /\ bottles = NoMap
    /\ bottleSeries = NoMap
    /\ seriesComparisons = NoMap
    /\ activeSeriesId = Null
    /\ activeSeriesComparisonId = Null
    /\ nextUuid = 0
    /\ config = DEFAULT_GENERATION_CONFIG
    /\ ranges1 = <<>> /\ ranges2 = <<>>
    /\ series1 = Null /\ series2 = Null
    /\ args = NoArgs
    /\ frame = NoFrame
    /\ ret = NoCall

Inputs == <<config, ranges1, ranges2, series1, series2, args, frame, ret>>

\* addBottle(bottleData), while the library holds fewer than cap bottles.
addBottleOf(bottleData, cap) ==
    /\ nextUuid < MaxUuid
    /\ Cardinality(DOMAIN bottles) < cap
    /\ LET id == uuidv4(nextUuid + 1)
           defaultDims == DEFAULT_DIMENSIONS(bottleData.shape)
           dimensions ==
               [f \in DOMAIN defaultDims |->
                   IF f \in DOMAIN bottleData.dimensions
                   THEN bottleData.dimensions[f] ELSE defaultDims[f]]
           bottle == Bottle(id, bottleData.shape, dimensions, 0, 0, TRUE)
       IN  bottles' =
              Put(bottles, id,
                  [bottle EXCEPT
                      !.volume = calculate(bottle),
                      !.surfaceArea = calculateSurfaceArea(bottle)])
    /\ nextUuid' = nextUuid + 1
    /\ UNCHANGED <<bottleSeries, seriesComparisons, activeSeriesId,
                   activeSeriesComparisonId, Inputs>>

addBottle == \E bottleData \in BottleData : addBottleOf(bottleData, MaxStoredBottles)

deleteBottle ==
    \E id \in DOMAIN bottles :
        /\ bottles' = Remove(bottles, {id})
        /\ UNCHANGED <<bottleSeries, seriesComparisons, activeSeriesId,
                       activeSeriesComparisonId, nextUuid, Inputs>>

\* createBottleSeries(name, config), the configuration drawn from configs.
createBottleSeriesFrom(configs, cap) ==
    \E name \in {"A"}, cfg \in configs :
        /\ nextUuid < cap
        /\ Cardinality(DOMAIN bottleSeries) < MaxStoredSeries
        /\ LET id == uuidv4(nextUuid + 1)
               series == [id |-> id, name |-> name, config |-> cfg,
                          bottles |-> generateSeries(cfg, bottles, nextUuid + 1)]
           IN  /\ bottleSeries' = Put(bottleSeries, id, series)
               /\ activeSeriesId' = id
        /\ nextUuid' = nextUuid + 1 + cfg.bottleCount
        /\ UNCHANGED <<bottles, seriesComparisons, activeSeriesComparisonId,
                       Inputs>>

createBottleSeries == createBottleSeriesFrom(ConfigsOver(bottles), MaxUuid)

\* regenerateSeries(seriesId, config), the configuration drawn from configs.
regenerateSeriesFrom(configs, cap) ==
    \E seriesId \in DOMAIN bottleSeries \cup {NoSuchId}, cfg \in configs :
        IF seriesId \in DOMAIN bottleSeries
        THEN /\ nextUuid < cap
             /\ bottleSeries' =
                   [bottleSeries EXCEPT
                       ![seriesId].config = cfg,
                       ![seriesId].bottles =
                           generateSeries(cfg, bottles, nextUuid)]
             /\ nextUuid' = nextUuid + cfg.bottleCount
             /\ UNCHANGED <<bottles, seriesComparisons, activeSeriesId,
                            activeSeriesComparisonId, Inputs>>
        ELSE UNCHANGED vars

regenerateSeries == regenerateSeriesFrom(ConfigsOver(bottles), MaxUuid)

deleteBottleSeries ==
    \E id \in DOMAIN bottleSeries :
        /\ bottleSeries' = Remove(bottleSeries, {id})
        /\ seriesComparisons' =
              Remove(seriesComparisons,
                     {compId \in DOMAIN seriesComparisons :
                         \/ seriesComparisons[compId].series1Id = id
                         \/ seriesComparisons[compId].series2Id = id})
        /\ activeSeriesId' = IF activeSeriesId = id THEN Null
                             ELSE activeSeriesId
        /\ UNCHANGED <<bottles, activeSeriesComparisonId, nextUuid, Inputs>>

setActiveSeries ==
    \E id \in DOMAIN bottleSeries \cup {Null} :
        /\ activeSeriesId' = id
        /\ UNCHANGED <<bottles, bottleSeries, seriesComparisons,
                       activeSeriesComparisonId, nextUuid, Inputs>>

\* createSeriesComparisonUpTo that clears the active comparison when a series
\* is missing.
createSeriesComparisonClearing(cap) ==
    \E series1Id, series2Id \in DOMAIN bottleSeries \cup {NoSuchId} :
        /\ args' = [series1Id |-> series1Id, series2Id |-> series2Id]
        /\ IF series1Id \in DOMAIN bottleSeries /\ series2Id \in DOMAIN bottleSeries
           THEN /\ nextUuid < cap
                /\ Cardinality(DOMAIN seriesComparisons) < MaxStoredComparisons
                /\ LET comparison ==
                           compareSeries(bottleSeries[series1Id],
                                         bottleSeries[series2Id],
                                         uuidv4(nextUuid + 1))
                   IN  /\ seriesComparisons' =
                             Put(seriesComparisons, comparison.id, comparison)
                       /\ activeSeriesComparisonId' = comparison.id
                       /\ ret' = [op |-> "createSeriesComparison",
                                  out |-> comparison.id]
                /\ nextUuid' = nextUuid + 1
                /\ UNCHANGED <<bottles, bottleSeries, activeSeriesId>>
           ELSE /\ ret' = [op |-> "createSeriesComparison", out |-> Null]
                /\ activeSeriesComparisonId' = Null
                /\ UNCHANGED <<bottles, bottleSeries, seriesComparisons,
                               activeSeriesId, nextUuid>>
        /\ UNCHANGED <<config, ranges1, ranges2, series1, series2, frame>>

\* createSeriesComparison(series1Id, series2Id), while fewer identifiers than
\* cap are drawn.  The arguments and the value returned are kept in args and
\* ret.
createSeriesComparisonUpTo(cap) ==
    \E series1Id, series2Id \in DOMAIN bottleSeries \cup {NoSuchId} :
        /\ args' = [series1Id |-> series1Id, series2Id |-> series2Id]
        /\ IF series1Id \in DOMAIN bottleSeries /\ series2Id \in DOMAIN bottleSeries
           THEN /\ nextUuid < cap
                /\ Cardinality(DOMAIN seriesComparisons) < MaxStoredComparisons
                /\ LET comparison ==
                           compareSeries(bottleSeries[series1Id],
                                         bottleSeries[series2Id],
                                         uuidv4(nextUuid + 1))
                   IN  /\ seriesComparisons' =
                             Put(seriesComparisons, comparison.id, comparison)
                       /\ activeSeriesComparisonId' = comparison.id
                       /\ ret' = [op |-> "createSeriesComparison",
                                  out |-> comparison.id]
                /\ nextUuid' = nextUuid + 1
                /\ UNCHANGED <<bottles, bottleSeries, activeSeriesId>>
           ELSE /\ ret' = [op |-> "createSeriesComparison", out |-> Null]
                /\ UNCHANGED <<bottles, bottleSeries, seriesComparisons,
                               activeSeriesId, activeSeriesComparisonId,
                               nextUuid>>
        /\ UNCHANGED <<config, ranges1, ranges2, series1, series2, frame>>

createSeriesComparison == createSeriesComparisonUpTo(MaxUuid)

deleteSeriesComparison ==
    \E id \in DOMAIN seriesComparisons :
        /\ seriesComparisons' = Remove(seriesComparisons, {id})
        /\ activeSeriesComparisonId' =
              IF activeSeriesComparisonId = id THEN Null
              ELSE activeSeriesComparisonId
        /\ UNCHANGED <<bottles, bottleSeries, activeSeriesId, nextUuid, Inputs>>

setActiveSeriesComparison ==
    \E id \in DOMAIN seriesComparisons \cup {Null} :
        /\ activeSeriesComparisonId' = id
        /\ UNCHANGED <<bottles, bottleSeries, seriesComparisons,
                       activeSeriesId, nextUuid, Inputs>>

Next ==
    \/ addBottle
    \/ deleteBottle
    \/ createBottleSeries
    \/ regenerateSeries
    \/ deleteBottleSeries
    \/ setActiveSeries
    \/ createSeriesComparison
    \/ deleteSeriesComparison
    \/ setActiveSeriesComparison

Spec == Init /\ [][Next]_vars

---------------------------------------------------------------------------
(* Sequences of createBottleSeries and regenerateSeries alone, on a drawn  *)
(* configuration and on the default one.                                   *)

\* The two actions go on while fewer identifiers than this are drawn.
MaxSeriesUuid == 11

SeriesConfigs ==
    {GenerationConfig(a, 65, 700, n, "boston-round", Pct(65), Pct(85)) :
        a \in Algorithms, n \in MinCount..MaxCount}

SeriesInit ==
    /\ StoreIdle
    /\ config \in SeriesConfigs
    /\ ranges1 = <<>> /\ ranges2 = <<>>
    /\ series1 = Null /\ series2 = Null
    /\ args = NoArgs
    /\ frame = NoFrame
    /\ ret = NoCall

SeriesNext ==
    \/ createBottleSeriesFrom({config, DEFAULT_GENERATION_CONFIG}, MaxSeriesUuid)
    \/ regenerateSeriesFrom({config, DEFAULT_GENERATION_CONFIG}, MaxSeriesUuid)

SeriesSpec == SeriesInit /\ [][SeriesNext]_vars

\* C2: after any sequence of createBottleSeries and regenerateSeries with
\* configurations whose bottleCount is in 3..10, every series the store holds
\* has exactly as many bottles as its own config.bottleCount says, the bottles
\* being the ones generateSeries returned for that configuration.
Thm_C2 ==
    \A id \in DOMAIN bottleSeries :
        /\ bottleSeries[id].config.bottleCount \in MinCount..MaxCount
        /\ Len(bottleSeries[id].bottles) = bottleSeries[id].config.bottleCount

\* A series that was created with one bottle count and regenerated with
\* another, ten.
Wit_C2 ==
    \E id \in DOMAIN bottleSeries :
        /\ bottleSeries[id].config.bottleCount = MaxCount
        /\ Len(bottleSeries[id].bottles) = MaxCount
        /\ bottleSeries[id].bottles[1].id # uuidv4(2)
        /\ config.bottleCount = MaxCount
        /\ nextUuid = 1 + DEFAULT_GENERATION_CONFIG.bottleCount + MaxCount

---------------------------------------------------------------------------
(* Calls of generateRecommendations on drawn arguments.                    *)

\* A minor, a moderate and a major gap.
RecGaps ==
    {CoverageGap(Fill(10), Fill(20)), CoverageGap(Fill(100), Fill(135)),
     CoverageGap(Fill(200), Fill(260))}

\* The longest gap list drawn.
MaxRecGaps == 2

RecGapLists == UNION {[1..n -> RecGaps] : n \in 0..MaxRecGaps}

\* Overlap lists of the lengths about the redundancy threshold.
RecOverlapLists ==
    {[k \in 1..n |->
        [startVolume |-> Fill(k), endVolume |-> Fill(k + 1),
         overlapSize |-> Fill(1),
         series1Bottles |-> <<uuidv4(k)>>, series2Bottles |-> <<uuidv4(k + 4)>>]] :
     n \in {0, 3, 4}}

\* Coverage triples about the thresholds 80 and 10 points.
RecCoverages ==
    {[series1 |-> c[1] * RatioUnit, series2 |-> c[2] * RatioUnit,
      combined |-> d] :
        c \in {<<50, 50>>, <<50, 60>>, <<49, 60>>, <<60, 50>>, <<60, 49>>},
        d \in {80 * RatioUnit, 80 * RatioUnit - 1}}

\* The analysis of a series, as far as generateRecommendations reads it.
RecAnalysis(name, gaps, efficiency) ==
    [seriesId |-> name, seriesName |-> name,
     gaps |-> gaps, totalGapSize |-> SumOf(gaps, "gapSize"),
     overlaps |-> <<>>, totalOverlapSize |-> 0,
     coverageSpan |-> 0, coveredRange |-> 0,
     coverageEfficiency |-> efficiency,
     spaceUtilization |-> 100 * RatioUnit]

RecAnalyses(name) ==
    {NoAnalysis} \cup
    {RecAnalysis(name, g, e) :
        g \in {<<>>} \cup {<<x>> : x \in RecGaps}
              \cup {<<CoverageGap(Fill(200), Fill(260)),
                      CoverageGap(Fill(300), Fill(400))>>},
        e \in {80 * RatioUnit, 80 * RatioUnit - 1}}

RecInit ==
    /\ StoreIdle
    /\ config = DEFAULT_GENERATION_CONFIG
    /\ ranges1 = <<>> /\ ranges2 = <<>>
    /\ series1 = Null /\ series2 = Null
    /\ args \in [gaps : RecGapLists, overlaps : RecOverlapLists,
                 coverage : RecCoverages,
                 series1Analysis : RecAnalyses("A"),
                 series2Analysis : {NoAnalysis,
                                    RecAnalysis("B", <<>>, 80 * RatioUnit),
                                    RecAnalysis("B", <<CoverageGap(Fill(200), Fill(260))>>,
                                                80 * RatioUnit - 1)}]
    /\ frame = NoFrame
    /\ ret = NoCall

CallGenerateRecommendations ==
    /\ ret' = [op |-> "generateRecommendations",
               out |-> generateRecommendations(args.gaps, args.overlaps,
                           args.coverage, args.series1Analysis,
                           args.series2Analysis)]
    /\ UNCHANGED <<bottles, bottleSeries, seriesComparisons, activeSeriesId,
                   activeSeriesComparisonId, nextUuid, config, ranges1,
                   ranges2, series1, series2, args,
                   frame>>

RecNext == CallGenerateRecommendations

RecSpec == RecInit /\ [][RecNext]_vars

\* How many gaps of a list have the given severity.
CountSeverity(gaps, severity) ==
    Cardinality({k \in DOMAIN gaps : gaps[k].severity = severity})

\* How many major internal gaps an analysis argument carries.
MajorInternal(analysis) ==
    IF analysis = NoAnalysis THEN 0 ELSE CountSeverity(analysis.gaps, "major")

LowEfficiency(analysis) ==
    IF analysis = NoAnalysis THEN 0
    ELSE IF analysis.coverageEfficiency < 80 * RatioUnit THEN 1 ELSE 0

\* The kinds of message that the rules (a)-(g) ask for, in rule order, each
\* with the series it names and how many of them are due.
RulesFired(a) ==
    << <<"internal-gap", "A", MajorInternal(a.series1Analysis)>>,
       <<"internal-gap", "B", MajorInternal(a.series2Analysis)>>,
       <<"low-efficiency", "A", LowEfficiency(a.series1Analysis)>>,
       <<"low-efficiency", "B", LowEfficiency(a.series2Analysis)>>,
       <<"major-gap", "Combined", CountSeverity(a.gaps, "major")>>,
       <<"moderate-gap", "Combined", CountSeverity(a.gaps, "moderate")>>,
       <<"redundant-overlaps", "Combined",
         IF Len(a.overlaps) > 3 THEN 1 ELSE 0>>,
       <<"low-coverage", "Combined",
         IF a.coverage.combined < 80 * RatioUnit THEN 1 ELSE 0>>,
       <<"lower-coverage", "Series 1",
         IF a.coverage.series2 - a.coverage.series1 > 10 * RatioUnit
         THEN 1 ELSE 0>>,
       <<"lower-coverage", "Series 2",
         IF a.coverage.series1 - a.coverage.series2 > 10 * RatioUnit
         THEN 1 ELSE 0>> >>

\* The position in rule order of a message, 0 for a message of no rule.
RuleOf(message, rules) ==
    LET at == {r \in DOMAIN rules :
                  rules[r][1] = message.kind /\ rules[r][2] = message.who}
    IN  IF at = {} THEN 0 ELSE CHOOSE r \in at : TRUE

\* C11: generateRecommendations never returns an empty list; it returns the
\* single well-optimized message exactly when none of the rules (a)-(g)
\* fired; otherwise every message belongs to a rule that fired, each rule
\* gives as many messages as it is due (one per major or moderate gap, one
\* per warning, none for minor gaps), and the messages stand in rule order.
Thm_C11 ==
    ret.op = "generateRecommendations" =>
        LET rules == RulesFired(args)
            none == \A r \in DOMAIN rules : rules[r][3] = 0
            out == ret.out
        IN  /\ Len(out) >= 1
            /\ (out = <<Note("well-optimized", "Combined")>>) <=> none
            /\ ~none =>
                  /\ \A k \in DOMAIN out : RuleOf(out[k], rules) > 0
                  /\ \A r \in DOMAIN rules :
                        Cardinality({k \in DOMAIN out : RuleOf(out[k], rules) = r})
                            = rules[r][3]
                  /\ \A k \in 1..(Len(out) - 1) :
                        RuleOf(out[k], rules) <= RuleOf(out[k + 1], rules)
                  /\ Cardinality({k \in DOMAIN out : out[k].kind = "lower-coverage"}) <= 1

\* A call in which a minor gap is passed over while a major internal gap, a
\* moderate combined gap, four overlaps and a trailing series 1 each give
\* their message, in that order.
Wit_C11 ==
    /\ ret.op = "generateRecommendations"
    /\ args.gaps = <<CoverageGap(Fill(10), Fill(20)),
                     CoverageGap(Fill(100), Fill(135))>>
    /\ Len(args.overlaps) = 4
    /\ [k \in DOMAIN ret.out |-> ret.out[k].kind]
          = <<"internal-gap", "moderate-gap", "redundant-overlaps",
              "lower-coverage">>

\* Whether a volume is within 1 % of a target given in whole mL.
WithinOnePercent(volume, targetVolume) ==
    100 * Abs(volume - Ml(targetVolume)) <= Ml(targetVolume)

\* C12: for every target volume a generation configuration produces and a
\* template of volume > 0, the bottle scaleBottleToVolume returns has a
\* computed volume within 1 % of the target.
Cex_C12 ==
    (/\ ret.op = "generateSeries"
     /\ getTemplate(config.baseTemplateId, bottles).volume > 0) =>
        \A k \in DOMAIN ret.out :
            WithinOnePercent(ret.out[k].volume, calculateVolumes(config)[k])

---------------------------------------------------------------------------
(* Calls of the series generator asked for few bottles, or none.           *)

\* The largest of the small bottle counts drawn; the smallest is -1.
MaxFewCount == 2

FewConfigs ==
    {GenerationConfig(a, v[1], v[2], n, t, Pct(65), Pct(85)) :
        a \in Algorithms, v \in VolumePairs, n \in (-1)..MaxFewCount,
        t \in GenTemplates}

FewInit ==
    /\ StoreIdle
    /\ config \in FewConfigs
    /\ ranges1 = <<>> /\ ranges2 = <<>>
    /\ series1 = Null /\ series2 = Null
    /\ args = NoArgs
    /\ frame = NoFrame
    /\ ret = NoCall

FewNext == CallCalculateVolumes \/ CallGenerateSeries

FewSpec == FewInit /\ [][FewNext]_vars

\* C13: for every algorithm, calculateVolumes with bottleCount <= 1 returns
\* the one-element list [minVolume]; generateSeries then returns one bottle.
Thm_C13 ==
    config.bottleCount <= 1 =>
        /\ ret.op = "calculateVolumes" => ret.out = <<config.minVolume>>
        /\ ret.op = "generateSeries" => Len(ret.out) = 1

\* calculateVolumes({algorithm: 'golden-ratio', count: 1, min: 65}) = [65].
Wit_C13 ==
    /\ ret.op = "calculateVolumes"
    /\ config.algorithm = "golden-ratio"
    /\ config.bottleCount = 1
    /\ config.minVolume = 65
    /\ ret.out = <<65>>

---------------------------------------------------------------------------
(* Calls of scaleBottleToVolume on drawn templates and target volumes.     *)

\* A template whose volume field is v and whose diameters and heights are
\* a quarter of a millimetre off the shape's defaults.
OffTemplate(shape, v) ==
    LET t == createTemplateFromShape(shape)
        d == t.dimensions
    IN  [t EXCEPT !.volume = v,
                  !.dimensions = [d EXCEPT !.diameter = d.diameter + 250,
                                           !.baseDiameter = d.baseDiameter + 250,
                                           !.bodyHeight = d.bodyHeight + 250,
                                           !.height = d.height + 250]]

\* A library bottle used as template: the shape's template with another body
\* height and neck height, its derived fields recomputed as the store does.
EditedTemplate(shape, bodyHeight, neckHeight) ==
    LET t == createTemplateFromShape(shape)
        edited == [t EXCEPT !.dimensions.bodyHeight = bodyHeight,
                            !.dimensions.neckHeight = neckHeight,
                            !.dimensions.height = bodyHeight + neckHeight]
    IN  [edited EXCEPT !.volume = calculate(edited),
                       !.surfaceArea = calculateSurfaceArea(edited)]

\* Body heights (a short, a usual and a tall body) and neck heights (5 mm and
\* 12.34 mm) of the edited templates.
EditedBodyHeights == {Mm(20), Mm(85), Mm(400)}
EditedNeckHeights == {Mm(5), Mm(12) + 340}

\* The templates of the shapes, edited templates, and templates of volume 0
\* and below.
ScaleTemplates ==
    {createTemplateFromShape(shape) : shape \in BottleShapes}
    \cup {EditedTemplate(shape, bh, nh) :
            shape \in {"boston-round", "oval"}, bh \in EditedBodyHeights,
            nh \in EditedNeckHeights}
    \cup {OffTemplate(shape, v) : shape \in BottleShapes, v \in {0, -1}}

\* Target volumes in mL, the largest drawn being MaxTarget.
MaxTarget == 2500

\* 300 and 301 lie on either side of a bracket of the diameter table, 2000
\* is the last bracket and MaxTarget is beyond it.
ScaleTargets == {2, 65, 200, 224, 300, 301, 700, 2000, MaxTarget}

ScaleInit ==
    /\ StoreIdle
    /\ config = DEFAULT_GENERATION_CONFIG
    /\ ranges1 = <<>> /\ ranges2 = <<>>
    /\ series1 = Null /\ series2 = Null
    /\ args \in [template : ScaleTemplates, targetVolume : ScaleTargets]
    /\ frame = NoFrame
    /\ ret = NoCall

CallScaleBottleToVolume ==
    /\ ret' = [op |-> "scaleBottleToVolume",
               out |-> scaleBottleToVolume(args.template, args.targetVolume,
                                           uuidv4(1))]
    /\ UNCHANGED <<bottles, bottleSeries, seriesComparisons, activeSeriesId,
                   activeSeriesComparisonId, nextUuid, config, ranges1,
                   ranges2, series1, series2, args,
                   frame>>

ScaleNext == CallScaleBottleToVolume

ScaleSpec == ScaleInit /\ [][ScaleNext]_vars

\* The five lengths finalizeBottle rounds.
RoundedLengths == {"height", "bodyHeight", "diameter", "baseDiameter", "neckDiameter"}

\* C14: when the template's volume is <= 0, scaleBottleToVolume returns, for
\* every target volume, a bottle whose dimensions are the template's, the
\* lengths only rounded to one decimal: no standard diameter, no standard
\* cap, no fitted body height.
Thm_C14 ==
    (ret.op = "scaleBottleToVolume" /\ args.template.volume <= 0) =>
        LET was == args.template.dimensions
            is == ret.out.dimensions
        IN  /\ DOMAIN is = DOMAIN was
            /\ \A f \in DOMAIN was \ RoundedLengths : is[f] = was[f]
            /\ \A f \in RoundedLengths :
                  /\ is[f] % (LenUnit \div 10) = 0
                  /\ 2 * Abs(is[f] - was[f]) <= LenUnit \div 10
            /\ ret.out.shape = args.template.shape

\* A template of volume 0 and diameter 55.25 mm, asked for 2000 mL, comes
\* back with diameter 55.3 mm.
Wit_C14 ==
    /\ ret.op = "scaleBottleToVolume"
    /\ args.template.volume = 0
    /\ args.targetVolume = MaxTarget
    /\ args.template.dimensions.diameter = Mm(55) + 250
    /\ ret.out.dimensions.diameter = Mm(55) + 300

\* C15: findIntraSeriesGaps and findIntraSeriesOverlaps return the empty
\* list for a series of at most one fill range, findGaps and findOverlaps
\* return it when the two series together hold at most one, and compareSeries
\* on two empty series gives a comparison whose gap and overlap lists, and
\* those of both analyses, are empty.
Thm_C15 ==
    LET n1 == Len(series1.bottles)
        n2 == Len(series2.bottles)
    IN  /\ (ret.op \in {"findIntraSeriesGaps", "findIntraSeriesOverlaps"} /\ n1 <= 1)
              => ret.out = <<>>
        /\ (ret.op \in {"findGaps", "findOverlaps"} /\ n1 + n2 <= 1)
              => ret.out = <<>>
        /\ (ret.op = "analyzeSeriesInternal" /\ n1 <= 1)
              => ret.out.gaps = <<>> /\ ret.out.overlaps = <<>>
        /\ (ret.op = "compareSeries" /\ n1 + n2 <= 1)
              => /\ ret.out.gaps = <<>> /\ ret.out.overlaps = <<>>
                 /\ ret.out.series1Analysis.gaps = <<>>
                 /\ ret.out.series1Analysis.overlaps = <<>>
                 /\ ret.out.series2Analysis.gaps = <<>>
                 /\ ret.out.series2Analysis.overlaps = <<>>

\* compareSeries on two empty series.
Wit_C15 ==
    /\ ret.op = "compareSeries"
    /\ series1.bottles = <<>> /\ series2.bottles = <<>>
    /\ ret.out.gaps = <<>> /\ ret.out.overlaps = <<>>

---------------------------------------------------------------------------
(* The number type of the code is IEEE 754 binary64.  The definitions above *)
(* compute with exact fixed-point numbers; the ones below compute as the     *)
(* code does, with every result rounded to 53 significant bits (round to     *)
(* nearest, ties to even).  Only what the fill-range analysis needs is       *)
(* here: numbers >= 0, far from overflow and from the subnormal range.       *)
(* A natural number below 2^61 is a pair <<hi, lo>> standing for             *)
(* hi * 2^30 + lo; a binary64 number is [m, e] standing for m * 2^e with     *)
(* 2^52 <= m < 2^53, or m = 0.                                               *)

Limb == 1073741824

Pow2(k) == 2 ^ k

Big(n) == <<n \div Limb, n % Limb>>

BigIsZero(a) == a[1] = 0 /\ a[2] = 0

BigLess(a, b) == a[1] < b[1] \/ (a[1] = b[1] /\ a[2] < b[2])

BigAdd(a, b) == <<a[1] + b[1] + ((a[2] + b[2]) \div Limb), (a[2] + b[2]) % Limb>>

\* a - b for a >= b
BigSub(a, b) == IF a[2] >= b[2] THEN <<a[1] - b[1], a[2] - b[2]>> ELSE <<a[1] - b[1] - 1, a[2] + (Limb - b[2])>>

\* the number of bits of a
BigBits(a) ==
    LET Bits(x) == IF x >= Limb THEN 31 ELSE CHOOSE k \in 0..30 : Pow2(k) > x /\ (k = 0 \/ Pow2(k - 1) <= x)
    IN  IF a[1] > 0 THEN 30 + Bits(a[1]) ELSE Bits(a[2])

\* a \div 2^k
BigShr(a, k) ==
    IF k >= 60 THEN <<0, a[1] \div Limb>>
    ELSE IF k >= 30 THEN <<0, a[1] \div Pow2(k - 30)>>
    ELSE <<a[1] \div Pow2(k), (a[1] % Pow2(k)) * Pow2(30 - k) + (a[2] \div Pow2(k))>>

\* a % 2^k
BigLow(a, k) ==
    IF k >= 60 THEN a
    ELSE IF k >= 30 THEN <<a[1] % Pow2(k - 30), a[2]>>
    ELSE <<0, a[2] % Pow2(k)>>

\* a * 2^k, for a result below 2^61
BigShl(a, k) ==
    IF k >= 30 THEN <<a[2] * Pow2(k - 30), 0>>
    ELSE <<a[1] * Pow2(k) + (a[2] \div Pow2(30 - k)), (a[2] % Pow2(30 - k)) * Pow2(k)>>

\* a * n for a whole number n < 2^8 and a result below 2^61
BigTimes(a, n) ==
    LET low == (a[2] % 32768) * n
        mid == (a[2] \div 32768) * n + (low \div 32768)
    IN  <<a[1] * n + (mid \div 32768), (mid % 32768) * 32768 + (low % 32768)>>

Zero64 == [m |-> <<0, 0>>, e |-> 0]

\* The binary64 number nearest to (n + f) * 2^e, where 0 < f < 1 if sticky
\* and f = 0 if not; a sticky n has at least 55 bits.
Round64(n, e, sticky) ==
    LET bits == BigBits(n)
        k == bits - 53
        q == BigShr(n, k)
        r == BigLow(n, k)
        half == BigShl(<<0, 1>>, k - 1)
        up == \/ BigLess(half, r)
              \/ r = half /\ (sticky \/ q[2] % 2 = 1)
        next == BigAdd(q, <<0, 1>>)
    IN  IF BigIsZero(n) THEN Zero64
        ELSE IF bits <= 53 THEN [m |-> BigShl(n, 53 - bits), e |-> e - (53 - bits)]
        ELSE IF ~up THEN [m |-> q, e |-> e + k]
        ELSE IF BigBits(next) > 53 THEN [m |-> BigShr(next, 1), e |-> e + k + 1]
        ELSE [m |-> next, e |-> e + k]

\* a whole number 0 <= n < 2^31 as a binary64 number
FromInt(n) == Round64(Big(n), 0, FALSE)

Less64(x, y) ==
    IF BigIsZero(y.m) THEN FALSE
    ELSE IF BigIsZero(x.m) THEN TRUE
    ELSE x.e < y.e \/ (x.e = y.e /\ BigLess(x.m, y.m))

Max64(x, y) == IF Less64(x, y) THEN y ELSE x

Min64(x, y) == IF Less64(y, x) THEN y ELSE x

\* The smaller operand of a sum or difference, brought to the exponent of the
\* larger one with three more bits, and whether bits of it were lost.
Aligned64(x, y) ==
    LET d == x.e - y.e
        wide == BigShl(y.m, 3)
    IN  IF d > 56 THEN [n |-> <<0, 0>>, sticky |-> TRUE]
        ELSE [n |-> BigShr(wide, d), sticky |-> ~BigIsZero(BigLow(wide, d))]

\* x + y
Add64(x, y) ==
    IF BigIsZero(x.m) THEN y
    ELSE IF BigIsZero(y.m) THEN x
    ELSE IF x.e < y.e THEN Round64(BigAdd(BigShl(y.m, 3), Aligned64(y, x).n), y.e - 3, Aligned64(y, x).sticky)
    ELSE Round64(BigAdd(BigShl(x.m, 3), Aligned64(x, y).n), x.e - 3, Aligned64(x, y).sticky)

\* x - y for x >= y
Sub64(x, y) ==
    IF BigIsZero(y.m) THEN x
    ELSE LET small == Aligned64(x, y)
             whole == BigSub(BigShl(x.m, 3), small.n)
         IN  IF small.sticky THEN Round64(BigSub(whole, <<0, 1>>), x.e - 3, TRUE)
             ELSE Round64(whole, x.e - 3, FALSE)

\* x * n for a whole number n < 2^8
Times64(x, n) == Round64(BigTimes(x.m, n), x.e, FALSE)

\* x * 2^k
Ldexp64(x, k) == IF BigIsZero(x.m) THEN x ELSE [m |-> x.m, e |-> x.e + k]

\* Long division, seven bits at a time: the quotient of rem * 2^(7 * left)
\* by den appended to quot, and whether a remainder is left.
RECURSIVE DivLoop(_, _, _, _)
DivLoop(rem, den, quot, left) ==
    IF left = 0 THEN [quot |-> quot, sticky |-> ~BigIsZero(rem)]
    ELSE LET wide == BigShl(rem, 7)
             digit == CHOOSE d \in 0..127 : ~BigLess(wide, BigTimes(den, d)) /\ BigLess(wide, BigTimes(den, d + 1))
         IN  DivLoop(BigSub(wide, BigTimes(den, digit)), den,
                     BigAdd(BigShl(quot, 7), <<0, digit>>), left - 1)

\* x / y for y > 0
Div64(x, y) ==
    IF BigIsZero(x.m) THEN Zero64
    ELSE LET first == ~BigLess(x.m, y.m)
             d == DivLoop(IF first THEN BigSub(x.m, y.m) ELSE x.m, y.m,
                          <<0, IF first THEN 1 ELSE 0>>, 8)
         IN  Round64(d.quot, x.e - y.e - 56, d.sticky)

---------------------------------------------------------------------------
(* The fill-range analysis in binary64: calculateFillRange, the sort,       *)
(* getTotalCoverage, the intra-series detectors and analyzeSeriesInternal,  *)
(* step for step as above, with the arithmetic of the code's number type.   *)

\* A volume given in 1/VolUnit mL, as the binary64 number nearest to it.
Volume64(v) == Div64(FromInt(v), FromInt(VolUnit))

\* volume * percent / 100, the percentage given in 1/PctUnit percent
\* (PctUnit is 2: the product by a number of half percents is halved, which
\* is exact).
PercentOf64(volume, percent) == Div64(Ldexp64(Times64(volume, percent), -1), FromInt(100))

calculateFillRange64(bottle, minPercent, maxPercent) ==
    LET targetPercent == (minPercent + maxPercent) \div 2
    IN  [bottleId |-> bottle.id,
         bottleVolume |-> bottle.volume,
         minFill |-> PercentOf64(bottle.volume, minPercent),
         targetFill |-> PercentOf64(bottle.volume, targetPercent),
         maxFill |-> PercentOf64(bottle.volume, maxPercent),
         minPercent |-> minPercent,
         targetPercent |-> targetPercent,
         maxPercent |-> maxPercent]

calculateSeriesFillRanges64(series) ==
    [i \in 1..Len(series.bottles) |->
        calculateFillRange64(series.bottles[i], series.config.fillRangeMin,
                             series.config.fillRangeMax)]

InsertByMinFill64(sorted, r) ==
    LET before == {i \in 1..Len(sorted) : ~Less64(r.minFill, sorted[i].minFill)}
        k == Cardinality(before)
    IN  SubSeq(sorted, 1, k) \o <<r>> \o SubSeq(sorted, k + 1, Len(sorted))

RECURSIVE SortByMinFill64(_)
SortByMinFill64(ranges) ==
    IF ranges = <<>> THEN <<>>
    ELSE InsertByMinFill64(SortByMinFill64(SubSeq(ranges, 1, Len(ranges) - 1)),
                           ranges[Len(ranges)])

RECURSIVE CoverageLoop64(_, _, _, _)
CoverageLoop64(sorted, i, totalCoverage, currentMax) ==
    IF i > Len(sorted) THEN totalCoverage
    ELSE LET range == sorted[i]
             effectiveMin == Max64(range.minFill, currentMax)
         IN  IF Less64(effectiveMin, range.maxFill)
             THEN CoverageLoop64(sorted, i + 1,
                                 Add64(totalCoverage, Sub64(range.maxFill, effectiveMin)),
                                 Max64(currentMax, range.maxFill))
             ELSE CoverageLoop64(sorted, i + 1, totalCoverage, currentMax)

getTotalCoverage64(ranges) ==
    IF Len(ranges) = 0 THEN Zero64
    ELSE LET sorted == SortByMinFill64(ranges)
         IN  CoverageLoop64(sorted, 1, Zero64, sorted[1].minFill)

assessGapSeverity64(gapSize) ==
    IF ~Less64(FromInt(GAP_SEVERITY_THRESHOLDS.minor), gapSize) THEN "minor"
    ELSE IF ~Less64(FromInt(GAP_SEVERITY_THRESHOLDS.moderate), gapSize) THEN "moderate"
    ELSE "major"

CoverageGap64(startVolume, endVolume) ==
    [startVolume |-> startVolume, endVolume |-> endVolume,
     gapSize |-> Sub64(endVolume, startVolume),
     severity |-> assessGapSeverity64(Sub64(endVolume, startVolume))]

RECURSIVE GapLoop64(_, _, _, _)
GapLoop64(sorted, i, runningMax, gaps) ==
    IF i > Len(sorted) THEN gaps
    ELSE LET nextMin == sorted[i].minFill
         IN  GapLoop64(sorted, i + 1, Max64(runningMax, sorted[i].maxFill),
                       IF Less64(runningMax, nextMin)
                       THEN Append(gaps, CoverageGap64(runningMax, nextMin))
                       ELSE gaps)

findIntraSeriesGaps64(ranges) ==
    IF Len(ranges) <= 1 THEN <<>>
    ELSE LET sorted == SortByMinFill64(ranges)
         IN  GapLoop64(sorted, 2, sorted[1].maxFill, <<>>)

findIntraSeriesOverlaps64(ranges) ==
    IF Len(ranges) <= 1 THEN <<>>
    ELSE
    LET overlapStart(p) == Max64(ranges[p[1]].minFill, ranges[p[2]].minFill)
        overlapEnd(p) == Min64(ranges[p[1]].maxFill, ranges[p[2]].maxFill)
        Hit(p) == p[1] < p[2] /\ Less64(overlapStart(p), overlapEnd(p))
        hits == SelectSeq(LoopPairs(Len(ranges), Len(ranges)), Hit)
    IN  [k \in 1..Len(hits) |->
            [startVolume |-> overlapStart(hits[k]),
             endVolume |-> overlapEnd(hits[k]),
             overlapSize |-> Sub64(overlapEnd(hits[k]), overlapStart(hits[k])),
             bottle1Id |-> ranges[hits[k][1]].bottleId,
             bottle2Id |-> ranges[hits[k][2]].bottleId]]

\* items.reduce((sum, item) => sum + item[field], 0)
SumOf64(items, field) ==
    LET sum[k \in 0..Len(items)] ==
            IF k = 0 THEN Zero64 ELSE Add64(sum[k - 1], items[k][field])
    IN  sum[Len(items)]

\* Math.min(...values) and Math.max(...values) of a non-empty list
MinOf64(values) ==
    LET least[k \in 1..Len(values)] ==
            IF k = 1 THEN values[1] ELSE Min64(least[k - 1], values[k])
    IN  least[Len(values)]

MaxOf64(values) ==
    LET most[k \in 1..Len(values)] ==
            IF k = 1 THEN values[1] ELSE Max64(most[k - 1], values[k])
    IN  most[Len(values)]

analyzeSeriesInternal64(series, fillRanges) ==
    IF Len(fillRanges) = 0
    THEN [seriesId |-> series.id, seriesName |-> series.name,
          gaps |-> <<>>, totalGapSize |-> Zero64,
          overlaps |-> <<>>, totalOverlapSize |-> Zero64,
          coverageSpan |-> Zero64, coveredRange |-> Zero64,
          coverageEfficiency |-> FromInt(100),
          spaceUtilization |-> FromInt(100)]
    ELSE
    LET gaps == findIntraSeriesGaps64(fillRanges)
        overlaps == findIntraSeriesOverlaps64(fillRanges)
        minFill == MinOf64([i \in DOMAIN fillRanges |-> fillRanges[i].minFill])
        maxFill == MaxOf64([i \in DOMAIN fillRanges |-> fillRanges[i].maxFill])
        coverageSpan == Sub64(maxFill, minFill)
        coveredRange == getTotalCoverage64(fillRanges)
        minVolume == MinOf64([i \in DOMAIN fillRanges |-> fillRanges[i].bottleVolume])
        maxVolume == MaxOf64([i \in DOMAIN fillRanges |-> fillRanges[i].bottleVolume])
        volumeRange == Sub64(maxVolume, minVolume)
    IN  [seriesId |-> series.id, seriesName |-> series.name,
         gaps |-> gaps, totalGapSize |-> SumOf64(gaps, "gapSize"),
         overlaps |-> overlaps,
         totalOverlapSize |-> SumOf64(overlaps, "overlapSize"),
         coverageSpan |-> coverageSpan, coveredRange |-> coveredRange,
         coverageEfficiency |->
            IF Less64(Zero64, coverageSpan)
            THEN Times64(Div64(coveredRange, coverageSpan), 100)
            ELSE FromInt(100),
         spaceUtilization |->
            IF Less64(Zero64, volumeRange)
            THEN Min64(FromInt(100), Times64(Div64(coveredRange, volumeRange), 100))
            ELSE FromInt(100)]

findGaps64(first, second) ==
    LET allRanges == SortByMinFill64(first \o second)
    IN  IF Len(allRanges) = 0 THEN <<>>
        ELSE GapLoop64(allRanges, 2, allRanges[1].maxFill, <<>>)

calculateCoverage64(first, second, gaps) ==
    LET allRanges == first \o second
    IN  IF Len(allRanges) = 0
        THEN [series1 |-> Zero64, series2 |-> Zero64, combined |-> Zero64]
        ELSE
        LET minVolume == MinOf64([i \in DOMAIN allRanges |-> allRanges[i].minFill])
            maxVolume == MaxOf64([i \in DOMAIN allRanges |-> allRanges[i].maxFill])
            totalRange == Sub64(maxVolume, minVolume)
            totalGapSize == SumOf64(gaps, "gapSize")
            combinedCoverage ==
                Times64(Div64(Sub64(totalRange, totalGapSize), totalRange), 100)
        IN  IF ~Less64(Zero64, totalRange)
            THEN [series1 |-> FromInt(100), series2 |-> FromInt(100),
                  combined |-> FromInt(100)]
            ELSE [series1 |->
                     Times64(Div64(getTotalCoverage64(first), totalRange), 100),
                  series2 |->
                     Times64(Div64(getTotalCoverage64(second), totalRange), 100),
                  combined |->
                     Min64(FromInt(100), Max64(Zero64, combinedCoverage))]

\* The numbers of compareSeries: the two analyses, the gaps between the
\* series and the three coverages.
compareSeries64(first, second) ==
    LET firstRanges == calculateSeriesFillRanges64(first)
        secondRanges == calculateSeriesFillRanges64(second)
        gaps == findGaps64(firstRanges, secondRanges)
        coverage == calculateCoverage64(firstRanges, secondRanges, gaps)
    IN  [series1Id |-> first.id, series2Id |-> second.id,
         series1Analysis |-> analyzeSeriesInternal64(first, firstRanges),
         series2Analysis |-> analyzeSeriesInternal64(second, secondRanges),
         gaps |-> gaps,
         series1Coverage |-> coverage.series1,
         series2Coverage |-> coverage.series2,
         combinedCoverage |-> coverage.combined]

---------------------------------------------------------------------------
(* Calls of analyzeSeriesInternal in binary64 on drawn series.             *)

\* Bottle volumes in mL.
Volumes64 == {27, 100, 207, 282, 637}

\* <<fillRangeMin, fillRangeMax>> in percent, the smaller first.
PercentPairs64 == {<<10, 95>>, <<25, 50>>, <<33, 77>>, <<65, 85>>}

\* How many bottles an analysed series holds at most.
MaxAnalysed == 2

\* The series with every bottle volume as a binary64 number.
Series64(series) ==
    [series EXCEPT !.bottles =
        [k \in DOMAIN series.bottles |->
            [series.bottles[k] EXCEPT !.volume = Volume64(@)]]]

Init64 ==
    /\ StoreIdle
    /\ config = DEFAULT_GENERATION_CONFIG
    /\ ranges1 = <<>> /\ ranges2 = <<>>
    /\ series1 \in {SeriesOf("A", v, p, 0) :
                        v \in UNION {[1..n -> Volumes64] : n \in 1..MaxAnalysed},
                        p \in PercentPairs64}
    /\ series2 \in {SeriesOf("B", v, <<65, 85>>, MaxAnalysed) : v \in {<<>>, <<100>>}}
    /\ args = NoArgs
    /\ frame = NoFrame
    /\ ret = NoCall

CallAnalyzeSeriesInternal64 ==
    /\ ret' = [op |-> "analyzeSeriesInternal64",
               out |-> analyzeSeriesInternal64(Series64(series1),
                           calculateSeriesFillRanges64(Series64(series1)))]
    /\ CovFrame

CallCompareSeries64 ==
    /\ ret' = [op |-> "compareSeries64",
               out |-> compareSeries64(Series64(series1), Series64(series2))]
    /\ CovFrame

Next64 == CallAnalyzeSeriesInternal64 \/ CallCompareSeries64

Spec64 == Init64 /\ [][Next64]_vars

Hundred64 == FromInt(100)

\* C16: analyzeSeriesInternal on a single-bottle series gives
\* coverageEfficiency 100, spaceUtilization 100, no gaps and no overlaps; on
\* every non-empty series whose fill ranges are well formed both percentages
\* lie in [0, 100], and coverageEfficiency is exactly 100 when, and only
\* when, the gap list is empty.
Cex_C16 ==
    ret.op = "analyzeSeriesInternal64" =>
        /\ Len(series1.bottles) = 1 =>
              /\ ret.out.coverageEfficiency = Hundred64
              /\ ret.out.spaceUtilization = Hundred64
              /\ ret.out.gaps = <<>> /\ ret.out.overlaps = <<>>
        /\ ~Less64(Hundred64, ret.out.coverageEfficiency)
        /\ ~Less64(Hundred64, ret.out.spaceUtilization)
        /\ (ret.out.coverageEfficiency = Hundred64) <=> (ret.out.gaps = <<>>)

---------------------------------------------------------------------------
(* Calls of estimateDimensionsForVolume as createBottleFromShape makes     *)
(* them: a target volume, a shape and the default dimensions of the shape. *)

\* Target volumes in mL, from 20 to 2000.
EstimateTargets == {20, 35, 50, 100, 200, 250, 500, 750, 1000, 1500, 1977, 2000}

EstimateInit ==
    /\ StoreIdle
    /\ config = DEFAULT_GENERATION_CONFIG
    /\ ranges1 = <<>> /\ ranges2 = <<>>
    /\ series1 = Null /\ series2 = Null
    /\ args \in {[targetVolume |-> v, shape |-> s,
                  baseDims |-> DEFAULT_DIMENSIONS(s)] :
                    v \in EstimateTargets, s \in BottleShapes}
    /\ frame = NoFrame
    /\ ret = NoCall

CallEstimateDimensionsForVolume ==
    /\ ret' = [op |-> "estimateDimensionsForVolume",
               out |-> estimateDimensionsForVolume(args.targetVolume,
                           args.shape, args.baseDims)]
    /\ CovFrame

EstimateNext == CallEstimateDimensionsForVolume

EstimateSpec == EstimateInit /\ [][EstimateNext]_vars

\* C18: for every shape and every target volume from 20 to 2000 mL, the
\* volume of the dimensions estimateDimensionsForVolume returns for the
\* shape's default dimensions, rounded to one decimal as they are, is less
\* than 0.5 mL away from the target.
Cex_C18 ==
    ret.op = "estimateDimensionsForVolume" =>
        2 * Abs(calculateFromDimensions(args.shape, ret.out) - Ml(args.targetVolume)) < VolUnit

---------------------------------------------------------------------------
(* generateSeries and estimateDimensionsForVolume one loop pass at a time. *)
(* `frame` holds the position of the call and its locals: "map" between    *)
(* two bottles of generateSeries, "fineTune" inside fineTuneVolume,        *)
(* "estimate" inside the loop of estimateDimensionsForVolume.              *)

\* The loop of fineTuneVolume as it would be without its iteration cap.
FineTuneDoneUncapped(i, targetVolume, vol) == FineTuneClose(targetVolume, vol)

\* The loop of fineTuneVolume is over: i has reached maxIterations, or the
\* break is taken.
FineTuneDone(i, targetVolume, vol) == i >= 15 \/ FineTuneClose(targetVolume, vol)

\* The loop of estimateDimensionsForVolume is over.
EstimateDone(i, targetVolume, currentVolume) == i >= 20 \/ EstimateClose(targetVolume, currentVolume)

RunConfigs ==
    {GenerationConfig(a, v[1], v[2], n, t, Pct(65), Pct(85)) :
        a \in Algorithms, v \in {<<65, 700>>, <<2, 2000>>},
        n \in {MinCount, MaxCount}, t \in {"boston-round", "oval"}}

RunEstimates ==
    {[targetVolume |-> v, shape |-> s, baseDims |-> DEFAULT_DIMENSIONS(s)] :
        v \in {20, 100, 2000}, s \in BottleShapes}

RunInit ==
    /\ StoreIdle
    /\ ranges1 = <<>> /\ ranges2 = <<>>
    /\ series1 = Null /\ series2 = Null
    /\ \/ config \in RunConfigs /\ args = NoArgs
       \/ config = DEFAULT_GENERATION_CONFIG /\ args \in RunEstimates
    /\ frame = NoFrame
    /\ ret = NoCall

RunFrame ==
    UNCHANGED <<bottles, bottleSeries, seriesComparisons, activeSeriesId,
                activeSeriesComparisonId, nextUuid, config, ranges1, ranges2,
                series1, series2, args>>

\* generateSeries up to the map over the target volumes.
BeginGenerateSeries ==
    /\ frame = NoFrame /\ ret = NoCall /\ args = NoArgs
    /\ frame' = [pc |-> "map",
                 volumes |-> calculateVolumes(config),
                 template |-> getTemplate(config.baseTemplateId, bottles),
                 index |-> 1, out |-> <<>>, passes |-> 0]
    /\ UNCHANGED ret
    /\ RunFrame

\* scaleBottleToVolume for the next target volume, up to the loop of
\* fineTuneVolume; a template without volume is finalized at once.
BeginScaleBottleToVolume ==
    /\ frame.pc = "map"
    /\ frame.index <= Len(frame.volumes)
    /\ LET targetVolume == frame.volumes[frame.index]
           scaledBottle == ScaledBottle(frame.template, targetVolume)
       IN  IF frame.template.volume <= 0
           THEN frame' = [frame EXCEPT
                    !.out = Append(@, finalizeBottle(frame.template, targetVolume,
                                          uuidv4(nextUuid + frame.index))),
                    !.index = @ + 1]
           ELSE frame' = [pc |-> "fineTune", volumes |-> frame.volumes,
                          template |-> frame.template, index |-> frame.index,
                          out |-> frame.out, passes |-> frame.passes,
                          adjusted |-> scaledBottle,
                          vol |-> calculate(scaledBottle), i |-> 0]
    /\ UNCHANGED ret
    /\ RunFrame

\* One pass of the loop of fineTuneVolume.
FineTunePass ==
    /\ frame.pc = "fineTune"
    /\ ~FineTuneDone(frame.i, frame.volumes[frame.index], frame.vol)
    /\ LET next == FineTuneStep(frame.adjusted, frame.volumes[frame.index], frame.vol)
       IN  frame' = [frame EXCEPT !.adjusted = next, !.vol = calculate(next),
                                  !.i = @ + 1, !.passes = @ + 1]
    /\ UNCHANGED ret
    /\ RunFrame

\* fineTuneVolume returns; scaleBottleToVolume enforces the ratio limits,
\* finalizes the bottle and returns it to the map.
ReturnScaleBottleToVolume ==
    /\ frame.pc = "fineTune"
    /\ FineTuneDone(frame.i, frame.volumes[frame.index], frame.vol)
    /\ frame' = [pc |-> "map", volumes |-> frame.volumes,
                 template |-> frame.template, index |-> frame.index + 1,
                 out |-> Append(frame.out,
                            finalizeBottle(enforceRatioLimits(frame.adjusted),
                                           frame.volumes[frame.index],
                                           uuidv4(nextUuid + frame.index))),
                 passes |-> frame.passes]
    /\ UNCHANGED ret
    /\ RunFrame

ReturnGenerateSeries ==
    /\ frame.pc = "map"
    /\ frame.index > Len(frame.volumes)
    /\ ret' = [op |-> "generateSeries", out |-> frame.out]
    /\ frame' = NoFrame
    /\ RunFrame

\* estimateDimensionsForVolume up to its loop.
BeginEstimateDimensionsForVolume ==
    /\ frame = NoFrame /\ ret = NoCall /\ args # NoArgs
    /\ LET dims == EstimateStart(args.baseDims)
       IN  frame' = [pc |-> "estimate", dims |-> dims,
                     currentVolume |-> calculateFromDimensions(args.shape, dims),
                     i |-> 0]
    /\ UNCHANGED ret
    /\ RunFrame

\* One pass of the loop of estimateDimensionsForVolume.
EstimatePass ==
    /\ frame.pc = "estimate"
    /\ ~EstimateDone(frame.i, args.targetVolume, frame.currentVolume)
    /\ LET next == EstimateStep(frame.dims, args.targetVolume, frame.currentVolume)
       IN  frame' = [frame EXCEPT !.dims = next,
                        !.currentVolume = calculateFromDimensions(args.shape, next),
                        !.i = @ + 1]
    /\ UNCHANGED ret
    /\ RunFrame

ReturnEstimateDimensionsForVolume ==
    /\ frame.pc = "estimate"
    /\ EstimateDone(frame.i, args.targetVolume, frame.currentVolume)
    /\ ret' = [op |-> "estimateDimensionsForVolume",
               out |-> EstimateRounded(frame.dims)]
    /\ frame' = NoFrame
    /\ RunFrame

RunNext ==
    \/ BeginGenerateSeries
    \/ BeginScaleBottleToVolume
    \/ FineTunePass
    \/ ReturnScaleBottleToVolume
    \/ ReturnGenerateSeries
    \/ BeginEstimateDimensionsForVolume
    \/ EstimatePass
    \/ ReturnEstimateDimensionsForVolume

RunSpec == RunInit /\ [][RunNext]_vars

\* How far the call has come: 0 before it, one more for every step, and the
\* largest value once it has returned.
RunMeasure ==
    IF ret # NoCall THEN 2 + 17 * MaxCount
    ELSE CASE frame.pc = "idle"     -> 0
           [] frame.pc = "map"      -> 1 + 17 * (frame.index - 1)
           [] frame.pc = "fineTune" -> 2 + 17 * (frame.index - 1) + frame.i
           [] frame.pc = "estimate" -> 1 + frame.i

\* Some step of the call in progress can be taken: the guards of RunNext.
RunCanStep ==
    \/ frame = NoFrame
    \/ frame.pc = "map" /\ frame.index <= Len(frame.volumes)
    \/ frame.pc = "map" /\ frame.index > Len(frame.volumes)
    \/ frame.pc = "fineTune" /\ ~FineTuneDone(frame.i, frame.volumes[frame.index], frame.vol)
    \/ frame.pc = "fineTune" /\ FineTuneDone(frame.i, frame.volumes[frame.index], frame.vol)
    \/ frame.pc = "estimate" /\ ~EstimateDone(frame.i, args.targetVolume, frame.currentVolume)
    \/ frame.pc = "estimate" /\ EstimateDone(frame.i, args.targetVolume, frame.currentVolume)

\* The loop counters stay within their caps, and a call that has not
\* returned can take a step.
RunBounded ==
    /\ frame.pc = "fineTune" =>
          /\ frame.i <= 15
          /\ frame.passes <= 15 * frame.index
          /\ frame.passes <= 15 * MaxCount
    /\ frame.pc = "map" => frame.passes <= 15 * (frame.index - 1)
    /\ frame.pc = "estimate" => frame.i <= 20
    /\ RunMeasure <= 2 + 17 * MaxCount
    /\ ret = NoCall => RunCanStep

\* What a call returns: a list of as many bottles as were asked for, which
\* is what the loops reached, or the estimated dimensions.
RunReturned ==
    ret # NoCall =>
        /\ frame = NoFrame
        /\ \/ /\ ret.op = "generateSeries"
              /\ ret.out = generateSeries(config, bottles, nextUuid)
              /\ Len(ret.out) = config.bottleCount
           \/ /\ ret.op = "estimateDimensionsForVolume"
              /\ ret.out = estimateDimensionsForVolume(args.targetVolume,
                               args.shape, args.baseDims)

\* C17: generateSeries always returns a list of bottles: fineTuneVolume makes
\* at most 15 passes for a bottle, at most 150 for a series of 10, and
\* estimateDimensionsForVolume at most 20; a loop that has used up its
\* passes without reaching its tolerance returns what it has reached.  Every
\* step brings the call nearer to its return, a call that has not returned
\* can take a step, and the number of steps is bounded.
Thm_C17 == [](RunBounded /\ RunReturned) /\ [][RunMeasure' > RunMeasure]_vars

\* A series is returned whose first bottle is more than 1 % away from its
\* target volume: the 15 passes were used up.
Wit_C17 ==
    /\ ret.op = "generateSeries"
    /\ ~FineTuneClose(calculateVolumes(config)[1], ret.out[1].volume)

---------------------------------------------------------------------------
(* Calls of calculateFromDimensions on drawn dimension sets, those a bottle *)
(* passes through while it is edited among them.                            *)

\* A shape tag that is none of the six.
UnknownShape == "no-such-shape"

\* <<baseProfile, baseIndentDepth>>
BaseIndents == {<<"flat", 0>>, <<"concave", Mm(5)>>}

\* Dimension sets with every length >= 0: diameters down to 0, walls thicker
\* than the radius, bodies shorter than the neck.
DimensionSets ==
    {[Dims(bh + nh, bh, d, nh, nd, "28-400", scr, 45, Mm(45), wt, wr) EXCEPT
            !.baseProfile = bi[1], !.baseIndentDepth = bi[2]] :
        bh \in {0, Mm(10), Mm(85)}, d \in {0, Mm(2), Mm(45)},
        nh \in {0, Mm(15)}, nd \in {0, Mm(22)}, scr \in {0, Mm(15)},
        wt \in {0, 1500, Mm(30)}, wr \in {0, 60}, bi \in BaseIndents}

DimensionInit ==
    /\ StoreIdle
    /\ config = DEFAULT_GENERATION_CONFIG
    /\ ranges1 = <<>> /\ ranges2 = <<>>
    /\ series1 = Null /\ series2 = Null
    /\ args \in [shape : BottleShapes \cup {UnknownShape}, dims : DimensionSets]
    /\ frame = NoFrame
    /\ ret = NoCall

CallCalculateFromDimensions ==
    /\ ret' = [op |-> "calculateFromDimensions",
               out |-> calculateFromDimensions(args.shape, args.dims)]
    /\ CovFrame

DimensionNext == CallCalculateFromDimensions

DimensionSpec == DimensionInit /\ [][DimensionNext]_vars

\* C19: calculateFromDimensions returns a volume >= 0 for every shape and
\* every dimension set with lengths >= 0, also when the body is shorter than
\* the neck or the wall thicker than the radius; a shape tag that is none of
\* the six is computed as a Boston round.
Thm_C19 ==
    ret.op = "calculateFromDimensions" =>
        /\ ret.out >= 0
        /\ args.shape = UnknownShape => ret.out = bostonRound(args.dims)

\* An unknown shape tag, a body shorter than the neck, a wall thicker than
\* the radius and a concave base: the solids add up to less than 0, the
\* volume returned is 0.
Wit_C19 ==
    /\ ret.op = "calculateFromDimensions"
    /\ args.shape = UnknownShape
    /\ args.dims.bodyHeight < args.dims.neckHeight
    /\ 2 * args.dims.wallThickness > args.dims.diameter
    /\ args.dims.baseProfile = "concave"
    /\ ret.out = 0

---------------------------------------------------------------------------
\* calculateVolumes of the golden-ratio progression, for 2 bottles and more.

GoldenConfigs ==
    {GenerationConfig("golden-ratio", v[1], v[2], n, t, Pct(65), Pct(85)) :
        v \in VolumePairs, n \in 2..MaxCount, t \in GenTemplates}

GoldenInit ==
    /\ StoreIdle
    /\ config \in GoldenConfigs
    /\ ranges1 = <<>> /\ ranges2 = <<>>
    /\ series1 = Null /\ series2 = Null
    /\ args = NoArgs
    /\ frame = NoFrame
    /\ ret = NoCall

GoldenNext == CallCalculateVolumes

GoldenSpec == GoldenInit /\ [][GoldenNext]_vars

---------------------------------------------------------------------------
\* calculateVolumes of every algorithm, for 2 bottles and more.

\* The volume ranges of the generator calls, and the range 100..500.
ProgressionPairs == VolumePairs \cup {<<100, 500>>}

ProgressionConfigs ==
    {GenerationConfig(a, v[1], v[2], n, "boston-round", Pct(65), Pct(85)) :
        a \in Algorithms, v \in ProgressionPairs, n \in 2..MaxCount}

ProgressionInit ==
    /\ StoreIdle
    /\ config \in ProgressionConfigs
    /\ ranges1 = <<>> /\ ranges2 = <<>>
    /\ series1 = Null /\ series2 = Null
    /\ args = NoArgs
    /\ frame = NoFrame
    /\ ret = NoCall

ProgressionNext == CallCalculateVolumes

ProgressionSpec == ProgressionInit /\ [][ProgressionNext]_vars

---------------------------------------------------------------------------
\* C22: for every template with volume > 0 and every target volume, the
\* bottle scaleBottleToVolume returns has bodyHeight / diameter within
\* [1.2, 3.0] after the final rounding, and height = bodyHeight + neckHeight.
Cex_C22 ==
    (ret.op = "scaleBottleToVolume" /\ args.template.volume > 0) =>
        LET d == ret.out.dimensions
        IN  /\ d.bodyHeight * 10 >= d.diameter * MIN_HEIGHT_DIAMETER_RATIO
            /\ d.bodyHeight * 10 <= d.diameter * MAX_HEIGHT_DIAMETER_RATIO
            /\ d.height = d.bodyHeight + d.neckHeight

\* The first half of C22 alone: the height:diameter band.
RatioBandHolds ==
    (ret.op = "scaleBottleToVolume" /\ args.template.volume > 0) =>
        LET d == ret.out.dimensions
        IN  /\ d.bodyHeight * 10 >= d.diameter * MIN_HEIGHT_DIAMETER_RATIO
            /\ d.bodyHeight * 10 <= d.diameter * MAX_HEIGHT_DIAMETER_RATIO

\* C23: for every template with volume > 0 and every target volume, the body
\* height of the bottle scaleBottleToVolume returns lies between 0.3 and 3.0
\* times the template's body height.
Cex_C23 ==
    (ret.op = "scaleBottleToVolume" /\ args.template.volume > 0) =>
        LET was == args.template.dimensions.bodyHeight
            is == ret.out.dimensions.bodyHeight
        IN  /\ is * 10 >= was * MIN_HEIGHT_RATIO
            /\ is * 10 <= was * MAX_HEIGHT_RATIO

\* The boston-round template (body height 85 mm) scaled to 2000 mL comes back
\* with a body more than 3.0 times as high.
DefaultTemplateOutgrown ==
    /\ ret.op = "scaleBottleToVolume"
    /\ args.template = createTemplateFromShape("boston-round")
    /\ args.targetVolume = 2000
    /\ ret.out.dimensions.bodyHeight * 10 > Mm(85) * MAX_HEIGHT_RATIO

\* Whether d (whole mm) is the diameter of the first bracket of the diameter
\* table whose maxVolume is at least the target, or that of the last bracket
\* when there is none.
IsBracketDiameter(d, target) ==
    LET table == STANDARD_BOTTLE_DIAMETERS
    IN  \/ \E i \in DOMAIN table :
              /\ table[i].maxVolume >= target
              /\ \A j \in 1..(i - 1) : table[j].maxVolume < target
              /\ d = table[i].diameter
        \/ /\ \A j \in DOMAIN table : table[j].maxVolume < target
           /\ d = table[Len(table)].diameter

\* Whether entry k of the cap table is at the least distance from the body
\* diameter d (whole mm), and the earliest such entry.
IsNearestCap(k, d) ==
    LET table == STANDARD_CAP_DIAMETERS
    IN  /\ \A j \in DOMAIN table :
              Abs(d - table[k].bottleDiameter) <= Abs(d - table[j].bottleDiameter)
        /\ \A j \in 1..(k - 1) :
              Abs(d - table[k].bottleDiameter) < Abs(d - table[j].bottleDiameter)

---------------------------------------------------------------------------
\* C25: ComparisonService.calculateSeriesCoverage returns, for every list of
\* fill ranges (empty, unsorted or with maxFill < minFill among them), the
\* value FillRangeService.getTotalCoverage returns for that list.
Thm_C25 ==
    /\ ret.op = "calculateSeriesCoverage" => ret.out = getTotalCoverage(ranges1)
    /\ ret.op = "getTotalCoverage" => ret.out = calculateSeriesCoverage(ranges1)

\* calculateSeriesCoverage has been called on three ranges that are not in
\* minFill order, one of them with its ends swapped, and found them to cover
\* something.
Wit_C25 ==
    /\ ret.op = "calculateSeriesCoverage"
    /\ Len(ranges1) = 3
    /\ \E i \in 1..3 : ranges1[i].maxFill < ranges1[i].minFill
    /\ \E i \in 1..2 : ranges1[i].minFill > ranges1[i + 1].minFill
    /\ ret.out > 0

---------------------------------------------------------------------------
(* What the core operations leave in the objects passed to them.  An array *)
(* or object handed to a call is shared with the caller: a sort, a push or *)
(* a field write on it shows in the caller's value, one on a copy does not.*)

\* ranges.sort(byMinFill) on the caller's array itself.
SortInPlace(ranges) ==
    [left |-> SortByMinFill(ranges), sorted |-> SortByMinFill(ranges)]

\* [...ranges].sort(byMinFill): the caller's array as it is left, and the
\* sorted array the call goes on with.
SortCopy(ranges) ==
    [left |-> ranges, sorted |-> SortByMinFill(ranges)]

\* The caller's array after getTotalCoverage(ranges).
getTotalCoverageLeaves(ranges) ==
    IF Len(ranges) = 0 THEN ranges ELSE SortCopy(ranges).left

\* The caller's array after findIntraSeriesGaps(ranges).
findIntraSeriesGapsLeaves(ranges) ==
    IF Len(ranges) <= 1 THEN ranges ELSE SortCopy(ranges).left

\* The caller's arrays after findGaps(ranges1, ranges2): the array sorted is
\* the new one [...ranges1, ...ranges2].
findGapsLeaves(first, second) ==
    LET allRanges == SortCopy(first \o second).sorted
    IN  <<first, second>>

\* The caller's array after analyzeSeriesInternal(series, ranges):
\* findIntraSeriesGaps, findIntraSeriesOverlaps (which only reads) and
\* getTotalCoverage are called on it in turn.
analyzeSeriesInternalLeaves(series, ranges) ==
    IF Len(ranges) = 0 THEN ranges
    ELSE getTotalCoverageLeaves(findIntraSeriesGapsLeaves(ranges))

\* The two series after compareSeries: their bottle lists are read by map,
\* and every later step works on the lists map returned.
compareSeriesLeaves(first, second) ==
    LET left1 == analyzeSeriesInternalLeaves(first, calculateSeriesFillRanges(first))
        left2 == analyzeSeriesInternalLeaves(second, calculateSeriesFillRanges(second))
    IN  <<first, second>>

\* The template object after scaleBottleToVolume: newDims, the bottle
\* fineTuneVolume adjusts and the one finalizeBottle builds are copies.
scaleBottleToVolumeLeaves(template, targetVolume) == template

\* The template after the calls of scaleBottleToVolume for volumes[k..].
RECURSIVE ScaleAllLeaves(_, _, _)
ScaleAllLeaves(template, volumes, k) ==
    IF k > Len(volumes) THEN template
    ELSE ScaleAllLeaves(scaleBottleToVolumeLeaves(template, volumes[k]),
                        volumes, k + 1)

\* The lookup after generateSeries(cfg, existingBottles).  getTemplate hands
\* out { ...existingBottles[id] }, whose dimensions object is the stored
\* bottle's own.
generateSeriesLeaves(cfg, existingBottles) ==
    IF cfg.baseTemplateId \in DOMAIN existingBottles
    THEN LET id == cfg.baseTemplateId
             template == ScaleAllLeaves(existingBottles[id], calculateVolumes(cfg), 1)
         IN  [existingBottles EXCEPT ![id].dimensions = template.dimensions]
    ELSE existingBottles

\* A library of two bottles: an edited oval, and a packer of volume 0.
EffectLibrary ==
    Put(Put(NoMap, "b1", [EditedTemplate("oval", Mm(20), Mm(12) + 340) EXCEPT !.id = "b1"]),
        "b2", [OffTemplate("packer", 0) EXCEPT !.id = "b2"])

EffectSeries1 == {SeriesOf("A", v, <<25, 50>>, 0) : v \in {<<40, 16>>, <<>>}}
EffectSeries2 == {SeriesOf("B", v, <<50, 25>>, 2) : v \in {<<20, 0, 16>>}}

\* Either the fill-range lists and the series are drawn, or the
\* configuration is.
EffectInit ==
    /\ bottles = EffectLibrary
    /\ bottleSeries = NoMap /\ seriesComparisons = NoMap
    /\ activeSeriesId = Null /\ activeSeriesComparisonId = Null
    /\ nextUuid = 0
    /\ \/ /\ config = DEFAULT_GENERATION_CONFIG
          /\ ranges1 \in RangeLists(2)
          /\ ranges2 \in RangeLists(1)
          /\ series1 \in EffectSeries1
       \/ /\ config \in ConfigsOver(EffectLibrary)
          /\ ranges1 = <<RangeOfSeed(4), RangeOfSeed(1)>>
          /\ ranges2 = <<>>
          /\ series1 \in EffectSeries1
    /\ series2 \in EffectSeries2
    /\ args = NoArgs
    /\ frame = NoFrame
    /\ ret = NoCall

EffectFrame ==
    UNCHANGED <<bottleSeries, seriesComparisons, activeSeriesId,
                activeSeriesComparisonId, nextUuid, config, args, frame>>

EffectGenerateSeries ==
    /\ ret' = [op |-> "generateSeries", out |-> generateSeries(config, bottles, 0)]
    /\ bottles' = generateSeriesLeaves(config, bottles)
    /\ UNCHANGED <<ranges1, ranges2, series1, series2>>
    /\ EffectFrame

EffectCompareSeries ==
    /\ ret' = [op |-> "compareSeries",
               out |-> compareSeries(series1, series2, uuidv4(2 * MaxBottles + 1))]
    /\ series1' = compareSeriesLeaves(series1, series2)[1]
    /\ series2' = compareSeriesLeaves(series1, series2)[2]
    /\ UNCHANGED <<bottles, ranges1, ranges2>>
    /\ EffectFrame

EffectAnalyzeSeriesInternal ==
    /\ ret' = [op |-> "analyzeSeriesInternal",
               out |-> analyzeSeriesInternal(series1, ranges1)]
    /\ ranges1' = analyzeSeriesInternalLeaves(series1, ranges1)
    /\ UNCHANGED <<bottles, ranges2, series1, series2>>
    /\ EffectFrame

EffectFindGaps ==
    /\ ret' = [op |-> "findGaps", out |-> findGaps(ranges1, ranges2)]
    /\ ranges1' = findGapsLeaves(ranges1, ranges2)[1]
    /\ ranges2' = findGapsLeaves(ranges1, ranges2)[2]
    /\ UNCHANGED <<bottles, series1, series2>>
    /\ EffectFrame

EffectGetTotalCoverage ==
    /\ ret' = [op |-> "getTotalCoverage", out |-> getTotalCoverage(ranges1)]
    /\ ranges1' = getTotalCoverageLeaves(ranges1)
    /\ UNCHANGED <<bottles, ranges2, series1, series2>>
    /\ EffectFrame

EffectNext ==
    \/ EffectGenerateSeries
    \/ EffectCompareSeries
    \/ EffectAnalyzeSeriesInternal
    \/ EffectFindGaps
    \/ EffectGetTotalCoverage

EffectSpec == EffectInit /\ [][EffectNext]_vars

---------------------------------------------------------------------------
(* The store's actions on the bottles of the library and of a series.      *)

\* How many bottles the library holds at most under these actions.
MaxLibraryBottles == 2

\* The updates updateBottle and updateBottleInSeries are called with: new
\* dimensions, another shape, a volume, and dimensions with a volume.
BottleUpdates ==
    LET dims == [DEFAULT_DIMENSIONS("packer") EXCEPT !.bodyHeight = Mm(70),
                                                     !.height = Mm(85)]
    IN  {[dimensions |-> dims], [shape |-> "cylinder"], [volume |-> Ml(5)],
         [dimensions |-> dims, volume |-> Ml(5)]}

\* The updates of series bottles: those that carry dimensions or a shape.
SeriesBottleUpdates ==
    {updates \in BottleUpdates :
        "dimensions" \in DOMAIN updates \/ "shape" \in DOMAIN updates}

\* Object.assign(bottle, updates), then the recalculation the store does when
\* the update carries dimensions or a shape.
UpdatedBottle(bottle, updates) ==
    LET assigned == [f \in DOMAIN bottle |->
                        IF f \in DOMAIN updates THEN updates[f] ELSE bottle[f]]
    IN  IF "dimensions" \in DOMAIN updates \/ "shape" \in DOMAIN updates
        THEN [assigned EXCEPT !.volume = calculate(assigned),
                              !.surfaceArea = calculateSurfaceArea(assigned)]
        ELSE assigned

updateBottle ==
    \E id \in DOMAIN bottles \cup {NoSuchId}, updates \in BottleUpdates :
        IF id \in DOMAIN bottles
        THEN /\ bottles' = [bottles EXCEPT ![id] = UpdatedBottle(bottles[id], updates)]
             /\ UNCHANGED <<bottleSeries, seriesComparisons, activeSeriesId,
                            activeSeriesComparisonId, nextUuid, Inputs>>
        ELSE UNCHANGED vars

duplicateBottle ==
    \E id \in DOMAIN bottles \cup {NoSuchId} :
        IF id \in DOMAIN bottles
        THEN addBottleOf(bottles[id], MaxLibraryBottles)
        ELSE UNCHANGED vars

\* createBottleFromShape(shape, targetVolume); a target of 0 stands for none.
createBottleFromShape ==
    \E shape \in {"oval"}, targetVolume \in {0, 100} :
        LET defaultDims == DEFAULT_DIMENSIONS(shape)
            dimensions == IF targetVolume # 0
                          THEN estimateDimensionsForVolume(targetVolume, shape,
                                                           defaultDims)
                          ELSE defaultDims
        IN  addBottleOf([shape |-> shape, dimensions |-> dimensions],
                        MaxLibraryBottles)

recalculateBottleVolume ==
    \E id \in DOMAIN bottles \cup {NoSuchId} :
        IF id \in DOMAIN bottles
        THEN /\ bottles' = [bottles EXCEPT
                               ![id].volume = calculate(bottles[id]),
                               ![id].surfaceArea = calculateSurfaceArea(bottles[id])]
             /\ UNCHANGED <<bottleSeries, seriesComparisons, activeSeriesId,
                            activeSeriesComparisonId, nextUuid, Inputs>>
        ELSE UNCHANGED vars

\* Positions of a series' bottle array, one past its end among them.
BottleIndices == 0..2

\* The bottles of a series after an update of those at the given positions.
UpdatedBottles(seriesBottles, bottleIndices, updates) ==
    [k \in DOMAIN seriesBottles |->
        IF (k - 1) \in bottleIndices
        THEN UpdatedBottle(seriesBottles[k], updates)
        ELSE seriesBottles[k]]

updateBottleInSeries ==
    \E seriesId \in DOMAIN bottleSeries \cup {NoSuchId},
       bottleIndex \in BottleIndices, updates \in SeriesBottleUpdates :
        IF /\ seriesId \in DOMAIN bottleSeries
           /\ bottleIndex + 1 \in DOMAIN bottleSeries[seriesId].bottles
        THEN /\ bottleSeries' =
                   [bottleSeries EXCEPT
                       ![seriesId].bottles =
                           UpdatedBottles(@, {bottleIndex}, updates)]
             /\ UNCHANGED <<bottles, seriesComparisons, activeSeriesId,
                            activeSeriesComparisonId, nextUuid, Inputs>>
        ELSE UNCHANGED vars

batchUpdateBottlesInSeries ==
    \E seriesId \in DOMAIN bottleSeries \cup {NoSuchId},
       bottleIndices \in SUBSET BottleIndices, updates \in SeriesBottleUpdates :
        IF seriesId \in DOMAIN bottleSeries
        THEN /\ bottleSeries' =
                   [bottleSeries EXCEPT
                       ![seriesId].bottles =
                           UpdatedBottles(@, bottleIndices, updates)]
             /\ UNCHANGED <<bottles, seriesComparisons, activeSeriesId,
                            activeSeriesComparisonId, nextUuid, Inputs>>
        ELSE UNCHANGED vars

\* The configuration of the one series these actions create: two bottles.
LibraryConfig == GenerationConfig("linear", 100, 500, 2, "packer", Pct(65), Pct(85))

\* Bottles and the series are added while fewer identifiers than this are
\* drawn.
MaxLibraryUuid == 4

LibraryNext ==
    \/ /\ nextUuid < MaxLibraryUuid
       /\ \/ \E bottleData \in BottleData : addBottleOf(bottleData, MaxLibraryBottles)
          \/ createBottleFromShape
          \/ duplicateBottle
          \/ createBottleSeriesFrom({LibraryConfig}, MaxLibraryUuid - 1)
    \/ updateBottle
    \/ recalculateBottleVolume
    \/ updateBottleInSeries
    \/ batchUpdateBottlesInSeries

LibrarySpec == Init /\ [][LibraryNext]_vars

\* Every bottle of the library has the volume and the surface area the
\* volume engine computes from its shape and dimensions.
LibraryAgrees ==
    \A id \in DOMAIN bottles :
        /\ bottles[id].volume = calculate(bottles[id])
        /\ bottles[id].surfaceArea = calculateSurfaceArea(bottles[id])

\* A step that changes the dimensions or the shape of a bottle of a stored
\* series leaves that bottle with the recomputed volume and surface area.
SeriesUpdateRecomputes ==
    \A id \in DOMAIN bottleSeries \cap DOMAIN bottleSeries' :
        \A k \in DOMAIN bottleSeries[id].bottles \cap DOMAIN bottleSeries'[id].bottles :
            LET was == bottleSeries[id].bottles[k]
                is == bottleSeries'[id].bottles[k]
            IN  (is.dimensions # was.dimensions \/ is.shape # was.shape) =>
                    /\ is.volume = calculate(is)
                    /\ is.surfaceArea = calculateSurfaceArea(is)

\* C27: after any sequence of addBottle, createBottleFromShape,
\* duplicateBottle, updateBottle and recalculateBottleVolume, with updates
\* carrying any subset of a bottle's fields, every bottle of the library has
\* volume = calculate and surfaceArea = calculateSurfaceArea of its current
\* shape and dimensions; and updateBottleInSeries and
\* batchUpdateBottlesInSeries recompute both whenever the update changes
\* dimensions or shape.
Cex_C27 == []LibraryAgrees /\ [][SeriesUpdateRecomputes]_vars

\* The second half of C27 alone.
SeriesUpdatesRecompute == [][SeriesUpdateRecomputes]_vars

---------------------------------------------------------------------------
\* C28: after any sequence of createBottleSeries, deleteBottleSeries,
\* regenerateSeries, createSeriesComparison, deleteSeriesComparison and
\* setActiveSeriesComparison (with null or the id of a stored comparison),
\* activeSeriesComparisonId is null or the id of a comparison that
\* seriesComparisons holds: deleting a series whose comparison is active leaves
\* no dangling active comparison id.
Cex_C28 ==
    \/ activeSeriesComparisonId = Null
    \/ activeSeriesComparisonId \in DOMAIN seriesComparisons

----------------------------------------------------------------------------
(* Stored comparisons and the series they name.                            *)

\* Series and comparisons are added while fewer identifiers than this are
\* drawn.
MaxComparisonUuid == 8

ComparisonConfigs ==
    {LibraryConfig,
     GenerationConfig("logarithmic", 65, 700, 2, "boston-round", Pct(65), Pct(85))}

ComparisonNext ==
    \/ createBottleSeriesFrom(ComparisonConfigs, MaxComparisonUuid - 1)
    \/ regenerateSeriesFrom(ComparisonConfigs, MaxComparisonUuid - 1)
    \/ deleteBottleSeries
    \/ createSeriesComparisonUpTo(MaxComparisonUuid)
    \/ deleteSeriesComparison

ComparisonSpec == Init /\ [][ComparisonNext]_vars

\* Every stored comparison names two stored series.
ComparisonsReferenceSeries ==
    \A compId \in DOMAIN seriesComparisons :
        /\ seriesComparisons[compId].series1Id \in DOMAIN bottleSeries
        /\ seriesComparisons[compId].series2Id \in DOMAIN bottleSeries

\* A step in which createSeriesComparison is called: no other action writes
\* ret or args.
createSeriesComparisonCalled ==
    /\ ret'.op = "createSeriesComparison"
    /\ \/ ret.op # "createSeriesComparison"
       \/ ret'.out # ret.out
       \/ args' # args

\* A call of createSeriesComparison with a missing series returns null and
\* leaves the comparisons and the active comparison as they were.
MissingSeriesLeaves ==
    (/\ createSeriesComparisonCalled
     /\ \/ args'.series1Id \notin DOMAIN bottleSeries
        \/ args'.series2Id \notin DOMAIN bottleSeries)
    => /\ ret'.out = Null
       /\ seriesComparisons' = seriesComparisons
       /\ activeSeriesComparisonId' = activeSeriesComparisonId

\* C29: after any sequence of createBottleSeries, deleteBottleSeries,
\* regenerateSeries, createSeriesComparison and deleteSeriesComparison every
\* stored comparison names two series that are still stored, and
\* createSeriesComparison with a missing series id returns null and leaves
\* seriesComparisons and activeSeriesComparisonId unchanged.
Thm_C29 == []ComparisonsReferenceSeries /\ [][MissingSeriesLeaves]_vars

\* A series was deleted together with the active comparison that named it, and
\* a later createSeriesComparison with a missing id returned null: the other
\* series is still stored and the active id is the one of the removed
\* comparison.
Wit_C29 ==
    /\ ret.op = "createSeriesComparison"
    /\ ret.out = Null
    /\ args.series1Id = NoSuchId
    /\ Cardinality(DOMAIN bottleSeries) = 1
    /\ seriesComparisons = NoMap
    /\ activeSeriesComparisonId # Null

----------------------------------------------------------------------------
(* The coverages of compareSeries and the sums of the analyses, in         *)
(* binary64.                                                               *)

\* a <= b
AtMost64(a, b) == ~Less64(b, a)

\* coveredRange + totalGapSize == coverageSpan
SumsToSpan64(analysis) ==
    Add64(analysis.coveredRange, analysis.totalGapSize) = analysis.coverageSpan

\* series1Coverage <= combinedCoverage, series2Coverage <= combinedCoverage
\* <= 100
CoveragesOrdered64 ==
    ret.op = "compareSeries64" =>
        /\ AtMost64(ret.out.series1Coverage, ret.out.combinedCoverage)
        /\ AtMost64(ret.out.series2Coverage, ret.out.combinedCoverage)
        /\ AtMost64(ret.out.combinedCoverage, Hundred64)

\* coveredRange + totalGapSize == coverageSpan in both analyses
AnalysesSumToSpan64 ==
    ret.op = "compareSeries64" =>
        /\ SumsToSpan64(ret.out.series1Analysis)
        /\ SumsToSpan64(ret.out.series2Analysis)

\* combinedCoverage is the union length of the pooled ranges over the total
\* range, times 100, where the total range is positive
CombinedIsUnion64 ==
    ret.op = "compareSeries64" =>
        LET pooled == calculateSeriesFillRanges64(Series64(series1))
                      \o calculateSeriesFillRanges64(Series64(series2))
            totalRange ==
                Sub64(MaxOf64([i \in DOMAIN pooled |-> pooled[i].maxFill]),
                      MinOf64([i \in DOMAIN pooled |-> pooled[i].minFill]))
        IN  Less64(Zero64, totalRange) =>
                ret.out.combinedCoverage =
                    Times64(Div64(getTotalCoverage64(pooled), totalRange), 100)

\* C30: in every result of compareSeries over well-formed fill ranges
\* combinedCoverage is the union length of the pooled ranges of both series
\* over the total range, times 100, so that series1Coverage <=
\* combinedCoverage and series2Coverage <= combinedCoverage <= 100, and in
\* each of its analyses coveredRange + totalGapSize == coverageSpan.
Cex_C30 == CombinedIsUnion64 /\ CoveragesOrdered64 /\ AnalysesSumToSpan64

====
